---- MODULE Spec2Model ----
(***************************************************************************)
(* Forma semantic validator (skill/tools/validate.py), modelled as a state *)
(* machine: one action per validation pass of ModelValidator.validate().   *)
(*                                                                         *)
(* Strings are sequences of one-character strings, so that the validator's *)
(* string re-parsing (rstrip, regex match, comma splitting, substitution)  *)
(* is computed as the code computes it.  Python values that are not        *)
(* strings are the marker sequences PyInt (the int 5) and PyList (the list *)
(* []).  Ordered dicts are sequences of <<key, value>> pairs.              *)
(***************************************************************************)
EXTENDS Integers, Sequences, FiniteSets, TLC

VARIABLES
    data,               \* the IR document handed to ModelValidator (self.data)
    errors,             \* self.errors
    warnings,           \* self.warnings
    shapes,             \* self.shapes
    choices,            \* self.choices
    mixins,             \* self.mixins
    mixin_fields,       \* self.mixin_fields   (values alias the IR's field maps)
    mixin_type_params,  \* self.mixin_type_params
    mixin_use,          \* self.mixin_use
    pc,                 \* position inside validate()
    exc,                \* the exception validate() raised, "" if none
    run,                \* number of the validator run on this document
    prev,               \* (errors, warnings) returned by the previous run
    source,             \* the text handed to parse_forma()
    index,              \* _lex: i + 1 (sequences are indexed from 1)
    line,               \* _lex: line
    col,                \* _lex: col
    tokens,             \* _lex: tokens
    pos,                \* _Parser: self.pos + 1
    ir,                 \* the accumulators of _Parser after parse()
    args_str,           \* the text handed to _split_type_args()
    split_args,         \* the list _split_type_args() returned
    err                 \* line and col of the LexError or ParseError raised

vars == <<data, errors, warnings, shapes, choices, mixins, mixin_fields,
          mixin_type_params, mixin_use, pc, exc, run, prev,
          source, index, line, col, tokens, pos, ir, args_str, split_args, err>>

\* the state of parse_forma(), which validate() never touches
parserVars == <<source, index, line, col, tokens, pos, ir, err>>


\* ------------------------------------------------------------------------
\* Python values and dict helpers
\* ------------------------------------------------------------------------

PyInt == <<"#int">>
PyList == <<"#list">>

\* isinstance(v, str)
IsStr(v) == v /= PyInt /\ v /= PyList

\* hashable values (usable as dict keys / set members)
IsHashable(v) == v /= PyList

\* str(v)
Str(v) == IF v = PyInt THEN <<"5">> ELSE IF v = PyList THEN <<"[", "]">> ELSE v

\* key in d
DictHas(d, key) == \E i \in 1..Len(d) : d[i][1] = key

\* d[key]
DictGet(d, key) == d[CHOOSE i \in 1..Len(d) : d[i][1] = key][2]

\* d[key] = val  (an existing key keeps its position)
DictPut(d, key, val) ==
    IF DictHas(d, key)
    THEN [i \in 1..Len(d) |-> IF d[i][1] = key THEN <<key, val>> ELSE d[i]]
    ELSE Append(d, <<key, val>>)

RECURSIVE DictUpdateKeep(_, _)
\* for k, v in other.items(): d.setdefault(k, v)
DictUpdateKeep(d, other) ==
    IF other = <<>> THEN d
    ELSE DictUpdateKeep(IF DictHas(d, other[1][1]) THEN d
                        ELSE Append(d, other[1]), Tail(other))

RECURSIVE DictUpdate(_, _)
\* d.update(other)
DictUpdate(d, other) ==
    IF other = <<>> THEN d
    ELSE DictUpdate(DictPut(d, other[1][1], other[1][2]), Tail(other))

\* list(d.keys())
DictKeys(d) == [i \in 1..Len(d) |-> d[i][1]]

\* ------------------------------------------------------------------------
\* String helpers
\* ------------------------------------------------------------------------

Letters ==
    {"A", "B", "C", "D", "E", "F", "G", "H", "I", "J", "K", "L", "M",
     "N", "O", "P", "Q", "R", "S", "T", "U", "V", "W", "X", "Y", "Z",
     "a", "b", "c", "d", "e", "f", "g", "h", "i", "j", "k", "l", "m",
     "n", "o", "p", "q", "r", "s", "t", "u", "v", "w", "x", "y", "z"}
Digits == {"0", "1", "2", "3", "4", "5", "6", "7", "8", "9"}

\* regex class \w
IsWordChar(c) == c \in Letters \cup Digits \cup {"_"}

RECURSIVE RStripQ(_)
\* s.rstrip("?")
RStripQ(s) ==
    IF s /= <<>> /\ s[Len(s)] = "?" THEN RStripQ(SubSeq(s, 1, Len(s) - 1)) ELSE s

RECURSIVE LStrip(_)
LStrip(s) == IF s /= <<>> /\ s[1] = " " THEN LStrip(Tail(s)) ELSE s

RECURSIVE RStrip(_)
RStrip(s) ==
    IF s /= <<>> /\ s[Len(s)] = " " THEN RStrip(SubSeq(s, 1, Len(s) - 1)) ELSE s

\* s.strip()
Strip(s) == LStrip(RStrip(s))

StartsWith(s, c) == s /= <<>> /\ s[1] = c
EndsWith(s, c) == s /= <<>> /\ s[Len(s)] = c

RECURSIVE Join(_, _)
\* sep.join(parts)
Join(parts, sep) ==
    IF parts = <<>> THEN <<>>
    ELSE IF Len(parts) = 1 THEN parts[1]
    ELSE parts[1] \o sep \o Join(Tail(parts), sep)

CommaSpace == <<",", " ">>
Arrow == <<" ", "-", ">", " ">>

RECURSIVE SplitLoop(_, _, _, _, _)
SplitLoop(s, i, depth, current, args) ==
    IF i > Len(s)
    THEN IF current /= <<>> THEN Append(args, Strip(current)) ELSE args
    ELSE LET ch == s[i] IN
         IF ch \in {"[", "{", "<"}
         THEN SplitLoop(s, i + 1, depth + 1, Append(current, ch), args)
         ELSE IF ch \in {"]", "}", ">"}
         THEN SplitLoop(s, i + 1, depth - 1, Append(current, ch), args)
         ELSE IF ch = "," /\ depth = 0
         THEN SplitLoop(s, i + 1, depth, <<>>, Append(args, Strip(current)))
         ELSE SplitLoop(s, i + 1, depth, Append(current, ch), args)

\* splitting at every comma, whatever the nesting depth
SplitAtEveryComma(s) ==
    LET RECURSIVE Loop(_, _, _)
        Loop(i, current, args) ==
            IF i > Len(s)
            THEN IF current /= <<>> THEN Append(args, Strip(current)) ELSE args
            ELSE IF s[i] = "," THEN Loop(i + 1, <<>>, Append(args, Strip(current)))
            ELSE Loop(i + 1, Append(current, s[i]), args)
    IN Loop(1, <<>>, <<>>)

\* _split_type_args(s)
SplitTypeArgs(s) == SplitLoop(s, 1, 0, <<>>, <<>>)

\* length of the maximal run of \w characters at the start of s
WordRun(s) ==
    IF \E k \in 1..Len(s) : ~IsWordChar(s[k])
    THEN (CHOOSE k \in 1..Len(s) :
              ~IsWordChar(s[k]) /\ \A j \in 1..(k - 1) : IsWordChar(s[j])) - 1
    ELSE Len(s)

\* _WRAPPER_RE.match(s) is not None, for ^(\w+)<(.+)>$
WrapperMatches(s) ==
    LET k == WordRun(s) IN
    /\ k >= 1
    /\ Len(s) >= k + 3
    /\ s[k + 1] = "<"
    /\ s[Len(s)] = ">"

\* m.group(1)
WrapperName(s) == SubSeq(s, 1, WordRun(s))

\* m.group(2)
WrapperArgs(s) == SubSeq(s, WordRun(s) + 2, Len(s) - 1)

\* [a.strip() for a in args]
StripAll(args) == [i \in 1..Len(args) |-> Strip(args[i])]

RECURSIVE SubstituteTypeParams(_, _)
\* _substitute_type_params(type_str, subst)
SubstituteTypeParams(type_str, subst) ==
    LET nullable == EndsWith(type_str, "?")
        base == IF nullable THEN RStripQ(type_str) ELSE type_str
        Q(r) == IF nullable THEN Append(r, "?") ELSE r
        Sub(argstr) ==
            LET args == SplitTypeArgs(argstr) IN
            Join([i \in 1..Len(args) |-> SubstituteTypeParams(Strip(args[i]), subst)],
                 CommaSpace)
    IN
    IF DictHas(subst, base) THEN Q(DictGet(subst, base))
    ELSE IF StartsWith(base, "[") /\ EndsWith(base, "]")
    THEN Q(<<"[">> \o Sub(SubSeq(base, 2, Len(base) - 1)) \o <<"]">>)
    ELSE IF StartsWith(base, "{") /\ EndsWith(base, "}")
    THEN Q(<<"{">> \o Sub(SubSeq(base, 2, Len(base) - 1)) \o <<"}">>)
    ELSE IF WrapperMatches(base)
    THEN Q(WrapperName(base) \o <<"<">> \o Sub(WrapperArgs(base)) \o <<">">>)
    ELSE type_str

\* ------------------------------------------------------------------------
\* Diagnostics
\* ------------------------------------------------------------------------

\* A message is the sequence of its literal and interpolated parts, a location
\* the sequence of its dotted components.
Diagnostic(code, level, message, location) ==
    [code |-> code, level |-> level, message |-> message, location |-> location]

\* What a piece of validation code did: the errors and warnings it appended, in
\* order, and the exception that ended it ("" when it ran to its end).
NoOut == [e |-> <<>>, w |-> <<>>, exc |-> ""]

\* raise exception
Raise(exception) == [e |-> <<>>, w |-> <<>>, exc |-> exception]

\* self._error(code, message, location)
ErrorOut(code, message, location) ==
    [e |-> <<Diagnostic(code, "error", message, location)>>, w |-> <<>>, exc |-> ""]

\* self._warn(code, message, location)
WarnOut(code, message, location) ==
    [e |-> <<>>, w |-> <<Diagnostic(code, "warning", message, location)>>, exc |-> ""]

\* o1 then o2; nothing runs after an exception
OutCat(o1, o2) ==
    IF o1.exc /= "" THEN o1
    ELSE [e |-> o1.e \o o2.e, w |-> o1.w \o o2.w, exc |-> o2.exc]

RECURSIVE OutConcat(_)
OutConcat(outs) == IF outs = <<>> THEN NoOut ELSE OutCat(outs[1], OutConcat(Tail(outs)))

OutIf(cond, out) == IF cond THEN out ELSE NoOut

\* decimal text of a small count
NumStr(n) == <<ToString(n)>>

\* ------------------------------------------------------------------------
\* Type resolution
\* ------------------------------------------------------------------------

RECURSIVE ResolveType(_, _)
\* self._resolve_type(raw, location): the diagnostics it emits
ResolveType(raw, location) ==
    IF ~IsStr(raw)
    THEN ErrorOut("E041", << <<"field type is not a string: ">>, Str(raw) >>, location)
    ELSE
    LET type_str == RStripQ(raw)
        inner == SubSeq(type_str, 2, Len(type_str) - 1)
        Elements(args, where) ==
            OutConcat([i \in 1..Len(args) |->
                LET arg == Strip(args[i]) IN
                OutCat(OutIf(EndsWith(arg, "?"),
                             WarnOut("W019", << <<"nullable element type ">>, arg >> \o where,
                                     location)),
                       ResolveType(arg, location))])
    IN
    IF type_str = <<>>
    THEN ErrorOut("E041", << <<"empty type string">> >>, location)
    ELSE IF StartsWith(type_str, "[") /\ EndsWith(type_str, "]")
    THEN Elements(SplitTypeArgs(inner), << <<" inside collection">> >>)
    ELSE IF StartsWith(type_str, "{") /\ EndsWith(type_str, "}")
    THEN LET args == SplitTypeArgs(inner) IN
         IF Len(args) /= 2
         THEN ErrorOut("E041",
                       << <<"association {K, V} requires exactly 2 type arguments, got ">>,
                          NumStr(Len(args)) >>, location)
         ELSE OutConcat([i \in 1..2 |-> ResolveType(Strip(args[i]), location)])
    ELSE IF WrapperMatches(type_str)
    THEN OutCat(WarnOut("W015", << <<"named wrapper ">>, WrapperName(type_str) >>, location),
                Elements(SplitTypeArgs(WrapperArgs(type_str)),
                         << <<" inside wrapper ">>, WrapperName(type_str) >>))
    ELSE IF type_str \in shapes \/ type_str \in choices
    THEN NoOut
    ELSE IF type_str \in mixins
    THEN ErrorOut("E042",
                  << <<"mixin ">>, type_str,
                     <<" cannot be used as a field type (use a shape instead)">> >>,
                  location)
    ELSE NoOut

RECURSIVE TypeUsesOnlyParams(_, _)
\* self._type_uses_only_params(type_str, params)
TypeUsesOnlyParams(type_str, params) ==
    LET stripped == RStripQ(type_str)
        AllArgs(argstr) ==
            LET args == SplitTypeArgs(argstr) IN
            \A i \in 1..Len(args) : TypeUsesOnlyParams(Strip(args[i]), params)
    IN
    IF stripped = <<>> THEN FALSE
    ELSE IF stripped \in params THEN TRUE
    ELSE IF StartsWith(stripped, "[") /\ EndsWith(stripped, "]")
    THEN AllArgs(SubSeq(stripped, 2, Len(stripped) - 1))
    ELSE IF StartsWith(stripped, "{") /\ EndsWith(stripped, "}")
    THEN AllArgs(SubSeq(stripped, 2, Len(stripped) - 1))
    ELSE IF WrapperMatches(stripped)
    THEN AllArgs(WrapperArgs(stripped))
    ELSE FALSE

\* self._parse_mixin_ref(ref_str), for a string ref_str (re.match raises
\* TypeError on any other value)
ParseMixinRef(ref_str) ==
    IF WrapperMatches(ref_str)
    THEN [name |-> WrapperName(ref_str),
          args |-> StripAll(SplitTypeArgs(WrapperArgs(ref_str)))]
    ELSE [name |-> ref_str, args |-> <<>>]

\* ------------------------------------------------------------------------
\* The IR document
\* ------------------------------------------------------------------------
\* A value that the validator expects to be a list or a mapping is a record
\* [k, v]: k says what the value is ("none": absent or None, "list", "dict",
\* "other": some other Python value) and v holds the elements.

PyNone == [k |-> "none", v |-> <<>>]
PyOther == [k |-> "other", v |-> <<>>]
PyListOf(v) == [k |-> "list", v |-> v]
PyDictOf(v) == [k |-> "dict", v |-> v]

\* _section_keys(data, section)
SectionKeys(section) == IF section.k = "dict" THEN DictKeys(section.v) ELSE <<>>

SeqToSet(s) == {s[i] : i \in 1..Len(s)}

\* the orders in which a Python set of strings can be iterated: the order
\* follows the strings' hashes, which are randomised per interpreter process
SetIterationOrders(S) ==
    {f \in [1..Cardinality(S) -> S] : \A i, j \in 1..Cardinality(S) : f[i] = f[j] => i = j}

\* ------------------------------------------------------------------------
\* Registry, duplicate names, top-level keys, meta
\* ------------------------------------------------------------------------

RECURSIVE RegistryLoop(_, _, _)
\* the mixins loop of _build_type_registry: the three side tables
RegistryLoop(items, i, tabs) ==
    IF i > Len(items) THEN tabs
    ELSE LET name == items[i][1]
             section == items[i][2]
             withFields == section.k = "dict" /\ section.fields.k = "dict"
         IN RegistryLoop(items, i + 1,
                [fields |-> IF withFields
                            THEN DictPut(tabs.fields, name, section.fields.v)
                            ELSE tabs.fields,
                 type_params |-> IF withFields /\ section.type_params.k = "list"
                                 THEN DictPut(tabs.type_params, name, section.type_params.v)
                                 ELSE tabs.type_params,
                 use |-> IF withFields /\ section.use.k = "list"
                         THEN DictPut(tabs.use, name, section.use.v)
                         ELSE tabs.use])

RECURSIVE DuplicateLoop(_, _, _)
\* the loops of _check_duplicate_type_names over (section_name, name) in
\* iteration order
DuplicateLoop(items, i, seen) ==
    IF i > Len(items) THEN NoOut
    ELSE LET section_name == items[i][1]
             name == items[i][2]
         IN IF DictHas(seen, name)
            THEN OutCat(ErrorOut("E100",
                                 << name, <<" is defined in both ">>, DictGet(seen, name),
                                    <<" and ">>, section_name >>,
                                 << section_name, name >>),
                        DuplicateLoop(items, i + 1, seen))
            ELSE DuplicateLoop(items, i + 1, DictPut(seen, name, section_name))

\* self._check_duplicate_type_names(), the sets iterated in the given orders
CheckDuplicateTypeNames(so, co, mo) ==
    DuplicateLoop([i \in 1..Len(so) |-> << <<"shapes">>, so[i] >>]
                  \o [i \in 1..Len(co) |-> << <<"choices">>, co[i] >>]
                  \o [i \in 1..Len(mo) |-> << <<"mixins">>, mo[i] >>],
                  1, <<>>)

\* self._validate_top_level_keys(); data.extra are the keys of the document
\* outside VALID_TOP_LEVEL_KEYS, in document order
ValidateTopLevelKeys ==
    OutConcat([i \in 1..Len(data.extra) |->
        ErrorOut("E010", << <<"unknown top-level key ">>, data.extra[i] >>,
                 << data.extra[i] >>)])

\* self._validate_meta(); each entry of meta is "absent", "none", "str",
\* "empty" (the empty string) or "other"
ValidateMeta ==
    LET meta == data.meta IN
    IF meta.k = "none"
    THEN ErrorOut("E001", << <<"meta section is missing">> >>, << <<"meta">> >>)
    ELSE IF meta.k /= "dict"
    THEN ErrorOut("E011", << <<"meta must be a mapping">> >>, << <<"meta">> >>)
    ELSE OutConcat(<<
        OutIf(meta.name \notin {"str", "empty"},
              ErrorOut("E002", << <<"meta.name is missing or not a string">> >>,
                       << <<"meta">>, <<"name">> >>)),
        OutIf(meta.version \notin {"str", "empty"},
              ErrorOut("E003", << <<"meta.version is missing or not a string">> >>,
                       << <<"meta">>, <<"version">> >>)),
        OutIf(meta.description = "absent",
              WarnOut("W013", << <<"meta.description is missing">> >>, << <<"meta">> >>)),
        OutIf(meta.namespace \in {"empty", "other"},
              ErrorOut("E004", << <<"meta.namespace must be a non-empty string">> >>,
                       << <<"meta">>, <<"namespace">> >>)) >>)

\* ------------------------------------------------------------------------
\* Mixins
\* ------------------------------------------------------------------------

\* the cycle path without the mixin that closes the cycle
CyclePathOpen(path, name) == Join(path, Arrow)

\* cycle_path = " -> ".join(path + [name])
CyclePath(path, name) == Join(Append(path, name), Arrow)

RECURSIVE DetectMixinCycle(_, _, _)
RECURSIVE DetectCycleLoop(_, _, _, _)

\* self._detect_mixin_cycle(name, visiting, path): [found, e, w, exc]
DetectMixinCycle(name, visiting, path) ==
    IF name \in visiting
    THEN [found |-> TRUE] @@
         ErrorOut("E091",
                  << <<"circular mixin composition: ">>, CyclePath(path, name) >>,
                  << <<"mixins">>, name >>)
    ELSE IF ~DictHas(mixin_use, name)
    THEN [found |-> FALSE] @@ NoOut
    ELSE DetectCycleLoop(DictGet(mixin_use, name), 1, visiting \cup {name},
                         Append(path, name))

\* the loop over self.mixin_use[name]
DetectCycleLoop(refs, i, visiting, path) ==
    IF i > Len(refs) THEN [found |-> FALSE] @@ NoOut
    ELSE IF ~IsStr(refs[i]) THEN [found |-> FALSE] @@ Raise("TypeError")
    ELSE LET r == DetectMixinCycle(ParseMixinRef(refs[i]).name, visiting, path) IN
         IF r.exc /= "" \/ r.found THEN r
         ELSE DetectCycleLoop(refs, i + 1, visiting, path)

\* the sub-key loop of a mixin declaration
CheckMixinKeys(name, body) ==
    OutConcat([i \in 1..Len(body.extra) |->
        ErrorOut("E060", << <<"unknown key ">>, body.extra[i], <<" in mixin ">>, name >>,
                 << <<"mixins">>, name, body.extra[i] >>)])

\* the type_params check of a mixin declaration
CheckTypeParams(name, type_params) ==
    LET loc == << <<"mixins">>, name, <<"type_params">> >> IN
    IF type_params.k = "none" THEN NoOut
    ELSE IF type_params.k /= "list"
    THEN ErrorOut("E065", << <<"type_params in mixin ">>, name, <<" must be a list">> >>, loc)
    ELSE OutConcat([i \in 1..Len(type_params.v) |->
            OutIf(~IsStr(type_params.v[i]),
                  ErrorOut("E065", << <<"type parameter must be a string">> >>, loc))])

\* the use-list check of a mixin declaration
CheckMixinUse(name, use_list) ==
    LET loc == << <<"mixins">>, name, <<"use">> >> IN
    IF use_list.k = "none" THEN NoOut
    ELSE IF use_list.k /= "list"
    THEN ErrorOut("E092", << <<"use in mixin ">>, name, <<" must be a list">> >>, loc)
    ELSE OutConcat([i \in 1..Len(use_list.v) |->
            LET mixin_name == ParseMixinRef(Str(use_list.v[i])).name IN
            OutIf(mixin_name \notin mixins,
                  ErrorOut("E092",
                           << <<"mixin ">>, name, <<" references unknown mixin ">>,
                              mixin_name >>, loc))])

\* the circular-composition check of a mixin declaration
CheckMixinCycle(name) ==
    LET cycle == DetectMixinCycle(name, {}, <<>>) IN
    [e |-> cycle.e, w |-> cycle.w, exc |-> cycle.exc]

\* the field-type loop of a mixin declaration
CheckMixinFieldTypes(name, fields, param_set) ==
    OutConcat([i \in 1..Len(fields) |->
        LET field_name == fields[i][1]
            field_type == fields[i][2]
        IN OutIf(IsStr(field_type) /\ ~TypeUsesOnlyParams(field_type, param_set),
                 ResolveType(field_type, << <<"mixins">>, name, field_name >>))])

\* one iteration of the loop of _validate_mixins
ValidateMixin(name, body) ==
    LET loc == << <<"mixins">>, name >>
        fields == body.fields
        type_params == body.type_params
        param_set == IF type_params.k = "list"
                     THEN {p \in SeqToSet(type_params.v) : IsStr(p)}
                     ELSE {}
    IN
    IF body.k /= "dict"
    THEN ErrorOut("E060", << <<"mixin ">>, name, <<" must have fields (got other)">> >>, loc)
    ELSE OutCat(
        CheckMixinKeys(name, body),
        IF fields.k /= "dict"
        THEN ErrorOut("E060", << <<"mixin ">>, name, <<" must have fields">> >>, loc)
        ELSE IF Len(fields.v) = 0
        THEN ErrorOut("E060", << <<"mixin ">>, name, <<" has no fields">> >>, loc)
        ELSE OutConcat(<< CheckTypeParams(name, type_params),
                          CheckMixinUse(name, body.use),
                          CheckMixinCycle(name),
                          CheckMixinFieldTypes(name, fields.v, param_set) >>))

\* self._validate_mixins()
ValidateMixins ==
    LET section == data.mixins IN
    IF section.k = "none" THEN NoOut
    ELSE IF section.k /= "dict"
    THEN ErrorOut("E011", << <<"mixins must be a mapping">> >>, << <<"mixins">> >>)
    ELSE IF Len(section.v) = 0
    THEN WarnOut("W017", << <<"mixins section is empty">> >>, << <<"mixins">> >>)
    ELSE OutConcat([i \in 1..Len(section.v) |->
            ValidateMixin(section.v[i][1], section.v[i][2])])

\* ------------------------------------------------------------------------
\* Choices
\* ------------------------------------------------------------------------

Common == <<"common">>

\* the fields of a common block or of a variant
ValidateFieldMap(fields, loc) ==
    OutConcat([i \in 1..Len(fields) |->
        OutIf(IsStr(fields[i][2]), ResolveType(fields[i][2], Append(loc, fields[i][1])))])

\* one iteration of the loop, the common block counted among the variants
ValidateChoiceCountingCommon(name, body) ==
    LET loc == << <<"choices">>, name >>
        common == IF body.k = "dict" /\ DictHas(body.v, Common)
                  THEN DictGet(body.v, Common) ELSE PyNone
        variants == IF body.k = "dict"
                    THEN SelectSeq(body.v, LAMBDA kv : kv[1] /= Common) ELSE <<>>
    IN
    IF body.k /= "dict"
    THEN ErrorOut("E011", << <<"choice ">>, name, <<" must be a mapping">> >>, loc)
    ELSE OutConcat(<<
        OutIf(common.k \notin {"none", "dict"},
              ErrorOut("E053", << <<"common block in choice ">>, name,
                                  <<" must be a mapping">> >>,
                       Append(loc, Common))),
        OutIf(Len(body.v) < 2,
              ErrorOut("E050", << <<"choice ">>, name, <<" must have at least 2 variants (has ">>,
                                  NumStr(Len(variants)) >>, loc)),
        OutIf(common.k = "dict", ValidateFieldMap(common.v, Append(loc, Common))),
        OutConcat([i \in 1..Len(variants) |->
            LET vname == variants[i][1]
                vfields == variants[i][2]
            IN IF vfields.k = "none" THEN NoOut
               ELSE IF vfields.k /= "dict"
               THEN ErrorOut("E051", << <<"variant ">>, vname, <<" in choice ">>, name,
                                        <<" must be a mapping or empty">> >>,
                             Append(loc, vname))
               ELSE ValidateFieldMap(vfields.v, Append(loc, vname))]) >>)

\* one iteration of the loop of _validate_choices
ValidateChoice(name, body) ==
    LET loc == << <<"choices">>, name >>
        common == IF body.k = "dict" /\ DictHas(body.v, Common)
                  THEN DictGet(body.v, Common) ELSE PyNone
        variants == IF body.k = "dict"
                    THEN SelectSeq(body.v, LAMBDA kv : kv[1] /= Common) ELSE <<>>
    IN
    IF body.k /= "dict"
    THEN ErrorOut("E011", << <<"choice ">>, name, <<" must be a mapping">> >>, loc)
    ELSE OutConcat(<<
        OutIf(common.k \notin {"none", "dict"},
              ErrorOut("E053", << <<"common block in choice ">>, name,
                                  <<" must be a mapping">> >>,
                       Append(loc, Common))),
        OutIf(Len(variants) < 2,
              ErrorOut("E050", << <<"choice ">>, name, <<" must have at least 2 variants (has ">>,
                                  NumStr(Len(variants)) >>, loc)),
        OutIf(common.k = "dict", ValidateFieldMap(common.v, Append(loc, Common))),
        OutConcat([i \in 1..Len(variants) |->
            LET vname == variants[i][1]
                vfields == variants[i][2]
            IN IF vfields.k = "none" THEN NoOut
               ELSE IF vfields.k /= "dict"
               THEN ErrorOut("E051", << <<"variant ">>, vname, <<" in choice ">>, name,
                                        <<" must be a mapping or empty">> >>,
                             Append(loc, vname))
               ELSE ValidateFieldMap(vfields.v, Append(loc, vname))]) >>)

\* self._validate_choices()
ValidateChoices ==
    LET section == data.choices IN
    IF section.k = "none" THEN NoOut
    ELSE IF section.k /= "dict"
    THEN ErrorOut("E011", << <<"choices must be a mapping">> >>, << <<"choices">> >>)
    ELSE IF Len(section.v) = 0
    THEN WarnOut("W017", << <<"choices section is empty">> >>, << <<"choices">> >>)
    ELSE OutConcat([i \in 1..Len(section.v) |->
            ValidateChoice(section.v[i][1], section.v[i][2])])

\* ------------------------------------------------------------------------
\* Transitive field resolution
\* ------------------------------------------------------------------------
\* self.mixin_fields holds the IR's own field maps (references, not copies),
\* so the table mf is threaded through the resolution: a write through a
\* reference that aliases a table entry changes the entry.  A dict under
\* construction is [aliased, val].

\* all_fields = fields: the dict under construction is the mixin's own map
AllFieldsOwn(fields) == [aliased |-> TRUE, val |-> fields]

\* all_fields: dict[str, str] = {}
AllFieldsInit(fields) == [aliased |-> FALSE, val |-> <<>>]

\* the table after all_fields of mixin owner became val
WriteThrough(all, mf, owner) ==
    IF all.aliased /\ DictHas(mf, owner) THEN DictPut(mf, owner, all.val) ELSE mf

RECURSIVE BuildSubst(_, _, _, _)
\* the substitution map from own type params: [subst, exc]
BuildSubst(params, type_args, i, subst) ==
    IF i > Len(params) \/ i > Len(type_args) THEN [subst |-> subst, exc |-> ""]
    ELSE IF ~IsHashable(params[i]) THEN [subst |-> subst, exc |-> "TypeError"]
    ELSE BuildSubst(params, type_args, i + 1, DictPut(subst, params[i], type_args[i]))

RECURSIVE AddOwnFields(_, _, _, _, _, _)
\* the loop adding own fields (with substitution): [all, mf, exc]
AddOwnFields(fields, i, subst, all, mf, owner) ==
    IF i > Len(fields) THEN [all |-> all, mf |-> mf, exc |-> ""]
    ELSE LET fname == fields[i][1]
             ftype == fields[i][2]
         IN IF subst /= <<>> /\ ~IsStr(ftype)
            THEN [all |-> all, mf |-> mf, exc |-> "AttributeError"]
            ELSE LET value == IF subst /= <<>> THEN SubstituteTypeParams(ftype, subst)
                                               ELSE ftype
                     all2 == [all EXCEPT !.val = DictPut(all.val, fname, value)]
                 IN AddOwnFields(fields, i + 1, subst, all2, WriteThrough(all2, mf, owner),
                                 owner)

\* resolution that returns a mixin's declared fields wherever it is met,
\* on the resolution path or not
ResolveDeclaredFields(mixin_name, type_args, visited, mf) ==
    [fields |-> IF DictHas(mf, mixin_name) THEN DictGet(mf, mixin_name) ELSE <<>>,
     mf |-> mf, exc |-> ""]

RECURSIVE ResolveMixinFields(_, _, _, _)
RECURSIVE ExpandComposed(_, _, _, _, _, _)

\* resolution that applies a mixin's substitution to the fields of the
\* mixins it composes as well as to its own
ResolveSubstitutingComposed(mixin_name, type_args, visited, mf) ==
    LET fields == IF DictHas(mf, mixin_name) THEN DictGet(mf, mixin_name) ELSE <<>>
        params == IF DictHas(mixin_type_params, mixin_name)
                  THEN DictGet(mixin_type_params, mixin_name) ELSE <<>>
        use_list == IF DictHas(mixin_use, mixin_name)
                    THEN DictGet(mixin_use, mixin_name) ELSE <<>>
        Substituted(subst, all) ==
            [all EXCEPT !.val =
                [i \in 1..Len(all.val) |->
                    << all.val[i][1],
                       IF subst /= <<>> /\ IsStr(all.val[i][2])
                       THEN SubstituteTypeParams(all.val[i][2], subst)
                       ELSE all.val[i][2] >>]]
        Own(composed, sb) ==
            IF composed.exc /= "" \/ sb.exc /= ""
            THEN [all |-> composed.all, mf |-> composed.mf,
                  exc |-> IF composed.exc /= "" THEN composed.exc ELSE sb.exc]
            ELSE AddOwnFields(fields, 1, sb.subst, Substituted(sb.subst, composed.all),
                              composed.mf, mixin_name)
        Result(own) ==
            [fields |-> IF own.exc /= "" THEN <<>> ELSE own.all.val,
             mf |-> own.mf, exc |-> own.exc]
    IN IF mixin_name \in visited THEN [fields |-> <<>>, mf |-> mf, exc |-> ""]
       ELSE Result(Own(ExpandComposed(use_list, 1, AllFieldsInit(fields),
                                      visited \cup {mixin_name}, mf, mixin_name),
                       BuildSubst(params, type_args, 1, <<>>)))

\* self._resolve_mixin_fields(mixin_name, type_args, loc, visited):
\* [fields, mf, exc]
ResolveMixinFields(mixin_name, type_args, visited, mf) ==
    IF mixin_name \in visited THEN [fields |-> <<>>, mf |-> mf, exc |-> ""]
    ELSE
    LET visited2 == visited \cup {mixin_name}
        fields == IF DictHas(mf, mixin_name) THEN DictGet(mf, mixin_name) ELSE <<>>
        params == IF DictHas(mixin_type_params, mixin_name)
                  THEN DictGet(mixin_type_params, mixin_name) ELSE <<>>
        use_list == IF DictHas(mixin_use, mixin_name)
                    THEN DictGet(mixin_use, mixin_name) ELSE <<>>
        composed == ExpandComposed(use_list, 1, AllFieldsInit(fields), visited2, mf,
                                   mixin_name)
        sb == BuildSubst(params, type_args, 1, <<>>)
        own == AddOwnFields(fields, 1, sb.subst, composed.all, composed.mf, mixin_name)
    IN
    IF composed.exc /= ""
    THEN [fields |-> <<>>, mf |-> composed.mf, exc |-> composed.exc]
    ELSE IF sb.exc /= ""
    THEN [fields |-> <<>>, mf |-> composed.mf, exc |-> sb.exc]
    ELSE [fields |-> own.all.val, mf |-> own.mf, exc |-> own.exc]

\* the loop expanding composed mixins first: [all, mf, exc]
ExpandComposed(refs, i, all, visited, mf, owner) ==
    IF i > Len(refs) THEN [all |-> all, mf |-> mf, exc |-> ""]
    ELSE IF ~IsStr(refs[i]) THEN [all |-> all, mf |-> mf, exc |-> "TypeError"]
    ELSE LET ref == ParseMixinRef(refs[i]) IN
         IF ~DictHas(mf, ref.name)
         THEN ExpandComposed(refs, i + 1, all, visited, mf, owner)
         ELSE LET r == ResolveMixinFields(ref.name, ref.args, visited, mf) IN
              IF r.exc /= "" THEN [all |-> all, mf |-> r.mf, exc |-> r.exc]
              ELSE LET all2 == [all EXCEPT !.val = DictUpdate(all.val, r.fields)] IN
                   ExpandComposed(refs, i + 1, all2, visited,
                                  WriteThrough(all2, r.mf, owner), owner)

\* ------------------------------------------------------------------------
\* Shapes
\* ------------------------------------------------------------------------

\* Stage 1 of a use entry: the arity check
CheckArity(name, mixin_name, type_args, loc) ==
    LET expected_params == IF DictHas(mixin_type_params, mixin_name)
                           THEN DictGet(mixin_type_params, mixin_name) ELSE <<>>
        nexp == Len(expected_params)
        nargs == Len(type_args)
    IN
    IF nargs = nexp THEN NoOut
    ELSE IF nexp > 0 /\ nargs = 0
    THEN ErrorOut("E086", << <<"mixin ">>, mixin_name, <<" requires ">>, NumStr(nexp),
                             <<" type argument(s), got 0">> >>, Append(loc, <<"use">>))
    ELSE IF nexp = 0 /\ nargs > 0
    THEN ErrorOut("E086", << <<"mixin ">>, mixin_name, <<" is not generic but got ">>,
                             NumStr(nargs), <<" type argument(s)">> >>,
                  Append(loc, <<"use">>))
    ELSE ErrorOut("E086", << <<"mixin ">>, mixin_name, <<" requires ">>, NumStr(nexp),
                             <<" type argument(s), got ">>, NumStr(nargs) >>,
                  Append(loc, <<"use">>))

RECURSIVE ContributeFields(_, _, _, _, _)
\* Stage 2 of a use entry, the loop over the resolved fields: [out, resolved]
ContributeFields(resolved_fields, i, mixin_name, resolved, loc) ==
    IF i > Len(resolved_fields) THEN [out |-> NoOut, resolved |-> resolved]
    ELSE LET mf_name == resolved_fields[i][1]
             mf_type == resolved_fields[i][2]
         IN IF DictHas(resolved, mf_name)
            THEN LET rest == ContributeFields(resolved_fields, i + 1, mixin_name, resolved, loc)
                 IN [out |-> OutCat(ErrorOut("E090",
                                        << <<"field ">>, mf_name,
                                           <<" is defined in both mixin ">>,
                                           DictGet(resolved, mf_name), <<" and mixin ">>,
                                           mixin_name >>,
                                        Append(loc, <<"use">>)),
                                    rest.out),
                     resolved |-> rest.resolved]
            ELSE LET rest == ContributeFields(resolved_fields, i + 1, mixin_name,
                                              DictPut(resolved, mf_name, mixin_name), loc)
                 IN [out |-> OutCat(ResolveType(mf_type,
                                        loc \o << <<"use">>, mixin_name, mf_name >>),
                                    rest.out),
                     resolved |-> rest.resolved]

\* Stage 1 of a use entry and the resolution of its type arguments
CheckUseEntry(name, ref, loc) ==
    OutCat(CheckArity(name, ref.name, ref.args, loc),
           OutConcat([j \in 1..Len(ref.args) |->
               ResolveType(ref.args[j], Append(loc, <<"use">>))]))

\* the diagnostics of one use entry, then the rest of the loop
ThenRest(out, rest) == [rest EXCEPT !.out = OutCat(out, rest.out)]

RECURSIVE ValidateUse(_, _, _, _, _, _)
RECURSIVE ValidateUseEntry(_, _, _, _, _, _, _)
RECURSIVE ValidateUseResolved(_, _, _, _, _, _, _)
RECURSIVE ValidateUseContributed(_, _, _, _, _, _, _)

\* the loop over a shape's use list: [out, resolved, mf]
ValidateUse(name, use_list, i, resolved, mf, loc) ==
    IF i > Len(use_list) THEN [out |-> NoOut, resolved |-> resolved, mf |-> mf]
    ELSE ValidateUseEntry(name, use_list, i, resolved, mf, loc,
                          ParseMixinRef(Str(use_list[i])))

\* one entry, parsed into ref = (mixin_name, type_args)
ValidateUseEntry(name, use_list, i, resolved, mf, loc, ref) ==
    IF ref.name \notin mixins
    THEN ThenRest(ErrorOut("E084", << <<"unknown mixin ">>, ref.name, <<" in shape ">>,
                                     name >>, Append(loc, <<"use">>)),
                  ValidateUse(name, use_list, i + 1, resolved, mf, loc))
    ELSE IF ~DictHas(mf, ref.name)
    THEN ThenRest(CheckUseEntry(name, ref, loc),
                  ValidateUse(name, use_list, i + 1, resolved, mf, loc))
    ELSE ValidateUseResolved(name, use_list, i, resolved, loc, ref,
                             ResolveMixinFields(ref.name, ref.args, {}, mf))

\* Stage 2 of the entry, r being what _resolve_mixin_fields returned
ValidateUseResolved(name, use_list, i, resolved, loc, ref, r) ==
    IF r.exc /= ""
    THEN [out |-> OutCat(CheckUseEntry(name, ref, loc), Raise(r.exc)),
          resolved |-> resolved, mf |-> r.mf]
    ELSE ValidateUseContributed(name, use_list, i, loc, ref, r,
                                ContributeFields(r.fields, 1, ref.name, resolved, loc))

\* the rest of the loop, c being what the entry's fields contributed
ValidateUseContributed(name, use_list, i, loc, ref, r, c) ==
    ThenRest(OutCat(CheckUseEntry(name, ref, loc), c.out),
             ValidateUse(name, use_list, i + 1, c.resolved, r.mf, loc))

\* the loop over a shape's own fields, a shadowing field left unresolved
ValidateShapeFieldsUnresolved(name, fields, resolved, loc) ==
    OutConcat([i \in 1..Len(fields) |->
        LET field_name == fields[i][1]
            field_type == fields[i][2]
            field_loc == loc \o << <<"fields">>, field_name >>
        IN IF DictHas(resolved, field_name)
           THEN WarnOut("W012", << <<"field ">>, field_name, <<" in shape ">>, name,
                                   <<" shadows mixin field from ">>,
                                   DictGet(resolved, field_name) >>, field_loc)
           ELSE IF ~IsStr(field_type)
           THEN ErrorOut("E075", << <<"field type must be a string, got ">>,
                                    Str(field_type) >>, field_loc)
           ELSE ResolveType(field_type, field_loc)])

\* the loop over a shape's own fields
ValidateShapeFields(name, fields, resolved, loc) ==
    OutConcat([i \in 1..Len(fields) |->
        LET field_name == fields[i][1]
            field_type == fields[i][2]
            field_loc == loc \o << <<"fields">>, field_name >>
        IN OutCat(
            OutIf(DictHas(resolved, field_name),
                  WarnOut("W012", << <<"field ">>, field_name, <<" in shape ">>, name,
                                     <<" shadows mixin field from ">>,
                                     DictGet(resolved, field_name) >>, field_loc)),
            IF ~IsStr(field_type)
            THEN ErrorOut("E075", << <<"field type must be a string, got ">>,
                                     Str(field_type) >>, field_loc)
            ELSE ResolveType(field_type, field_loc))])

\* the sub-key loop of a shape
CheckShapeKeys(name, body) ==
    OutConcat([i \in 1..Len(body.extra) |->
        ErrorOut("E085", << <<"unknown key ">>, body.extra[i], <<" in shape ">>, name >>,
                 << <<"shapes">>, name, body.extra[i] >>)])

\* the use section of a shape: [out, resolved, mf]
CheckShapeUse(name, use_list, mf) ==
    IF use_list.k = "none" THEN [out |-> NoOut, resolved |-> <<>>, mf |-> mf]
    ELSE IF use_list.k /= "list"
    THEN [out |-> ErrorOut("E083", << <<"use in shape ">>, name, <<" must be a list">> >>,
                           << <<"shapes">>, name, <<"use">> >>),
          resolved |-> <<>>, mf |-> mf]
    ELSE ValidateUse(name, use_list.v, 1, <<>>, mf, << <<"shapes">>, name >>)

\* the fields section of a shape
CheckShapeFields(name, fields, resolved) ==
    LET loc == << <<"shapes">>, name >> IN
    IF fields.k = "none"
    THEN ErrorOut("E070", << <<"shape ">>, name, <<" is missing fields section">> >>, loc)
    ELSE IF fields.k /= "dict"
    THEN ErrorOut("E011", << <<"fields in shape ">>, name, <<" must be a mapping">> >>,
                  Append(loc, <<"fields">>))
    ELSE OutCat(OutIf(Len(fields.v) = 0,
                      ErrorOut("E070", << <<"shape ">>, name, <<" has no fields">> >>,
                               Append(loc, <<"fields">>))),
                ValidateShapeFields(name, fields.v, resolved, loc))

\* a shape after its use section gave use = [out, resolved, mf]
ValidateShapeBody(name, body, use) ==
    [out |-> OutCat(CheckShapeKeys(name, body),
                    OutCat(use.out, CheckShapeFields(name, body.fields, use.resolved))),
     mf |-> use.mf]

\* one iteration of the loop of _validate_shapes: [out, mf]
ValidateShape(name, body, mf) ==
    IF body.k /= "dict"
    THEN [out |-> ErrorOut("E011", << <<"shape ">>, name, <<" must be a mapping">> >>,
                           << <<"shapes">>, name >>),
          mf |-> mf]
    ELSE ValidateShapeBody(name, body, CheckShapeUse(name, body.use, mf))

RECURSIVE ValidateShapesLoop(_, _, _)
RECURSIVE ValidateShapesNext(_, _, _)

\* the loop of _validate_shapes: [out, mf]
ValidateShapesLoop(items, i, mf) ==
    IF i > Len(items) THEN [out |-> NoOut, mf |-> mf]
    ELSE ValidateShapesNext(items, i, ValidateShape(items[i][1], items[i][2], mf))

\* the loop after the iteration for items[i] gave r
ValidateShapesNext(items, i, r) ==
    IF r.out.exc /= "" THEN r
    ELSE ThenRest(r.out, ValidateShapesLoop(items, i + 1, r.mf))

\* self._validate_shapes(): [out, mf]
ValidateShapes ==
    LET section == data.shapes IN
    IF section.k = "none" THEN [out |-> NoOut, mf |-> mixin_fields]
    ELSE IF section.k /= "dict"
    THEN [out |-> ErrorOut("E011", << <<"shapes must be a mapping">> >>, << <<"shapes">> >>),
          mf |-> mixin_fields]
    ELSE IF Len(section.v) = 0
    THEN [out |-> WarnOut("W017", << <<"shapes section is empty">> >>, << <<"shapes">> >>),
          mf |-> mixin_fields]
    ELSE ValidateShapesLoop(section.v, 1, mixin_fields)

\* ------------------------------------------------------------------------
\* validate() as a state machine
\* ------------------------------------------------------------------------

\* the passes with choices validated before mixins
PassOrderChoicesFirst ==
    <<"registry", "duplicates", "top_level_keys", "meta", "choices", "mixins", "shapes">>

\* the passes of validate(), in call order
PassOrder ==
    <<"registry", "duplicates", "top_level_keys", "meta", "mixins", "choices", "shapes">>

PassIndex(p) == CHOOSE i \in 1..Len(PassOrder) : PassOrder[i] = p

\* where validate() stands after pass p ended with exception x
After(p, x) ==
    IF x /= "" THEN "raised"
    ELSE IF PassIndex(p) = Len(PassOrder) THEN "done"
    ELSE PassOrder[PassIndex(p) + 1]

\* the list after the pass appended its diagnostics; by records the pass
Emit(list, diags, pass) ==
    list \o [i \in 1..Len(diags) |-> diags[i] @@ [by |-> pass]]

\* the document after the field maps that the table aliases took the table's
\* values
WriteBack(doc, mf) ==
    IF doc.mixins.k /= "dict" THEN doc
    ELSE LET items == doc.mixins.v IN
         [doc EXCEPT !.mixins.v =
            [i \in 1..Len(items) |->
                IF DictHas(mf, items[i][1])
                THEN << items[i][1],
                        [items[i][2] EXCEPT !.fields.v = DictGet(mf, items[i][1])] >>
                ELSE items[i]]]

registryVars == <<shapes, choices, mixins, mixin_fields, mixin_type_params, mixin_use>>

\* the effect of a pass that only appends diagnostics
Report(pass, out) ==
    /\ errors' = Emit(errors, out.e, pass)
    /\ warnings' = Emit(warnings, out.w, pass)
    /\ exc' = out.exc
    /\ pc' = After(pass, out.exc)

BuildTypeRegistry ==
    /\ pc = "registry"
    /\ UNCHANGED <<parserVars, args_str, split_args>>
    /\ shapes' = SeqToSet(SectionKeys(data.shapes))
    /\ choices' = SeqToSet(SectionKeys(data.choices))
    /\ mixins' = SeqToSet(SectionKeys(data.mixins))
    /\ LET tabs == RegistryLoop(IF data.mixins.k = "dict" THEN data.mixins.v ELSE <<>>, 1,
                                [fields |-> <<>>, type_params |-> <<>>, use |-> <<>>])
       IN /\ mixin_fields' = tabs.fields
          /\ mixin_type_params' = tabs.type_params
          /\ mixin_use' = tabs.use
    /\ pc' = After("registry", "")
    /\ UNCHANGED <<data, errors, warnings, exc, run, prev>>

CheckDuplicates ==
    /\ pc = "duplicates"
    /\ UNCHANGED <<parserVars, args_str, split_args>>
    /\ \E so \in SetIterationOrders(shapes), co \in SetIterationOrders(choices),
          mo \in SetIterationOrders(mixins) :
            Report("duplicates", CheckDuplicateTypeNames(so, co, mo))
    /\ UNCHANGED <<data, registryVars, run, prev>>

CheckTopLevelKeys ==
    /\ pc = "top_level_keys"
    /\ UNCHANGED <<parserVars, args_str, split_args>>
    /\ Report("top_level_keys", ValidateTopLevelKeys)
    /\ UNCHANGED <<data, registryVars, run, prev>>

CheckMeta ==
    /\ pc = "meta"
    /\ UNCHANGED <<parserVars, args_str, split_args>>
    /\ Report("meta", ValidateMeta)
    /\ UNCHANGED <<data, registryVars, run, prev>>

CheckMixins ==
    /\ pc = "mixins"
    /\ UNCHANGED <<parserVars, args_str, split_args>>
    /\ Report("mixins", ValidateMixins)
    /\ UNCHANGED <<data, registryVars, run, prev>>

CheckChoices ==
    /\ pc = "choices"
    /\ UNCHANGED <<parserVars, args_str, split_args>>
    /\ Report("choices", ValidateChoices)
    /\ UNCHANGED <<data, registryVars, run, prev>>

\* the effect of the shapes pass that returned r = [out, mf]: the field maps
\* of the document are the objects the table refers to
ReportShapes(r) ==
    /\ Report("shapes", r.out)
    /\ mixin_fields' = r.mf
    /\ data' = WriteBack(data, r.mf)

CheckShapes ==
    /\ pc = "shapes"
    /\ UNCHANGED <<parserVars, args_str, split_args>>
    /\ ReportShapes(ValidateShapes)
    /\ UNCHANGED <<shapes, choices, mixins, mixin_type_params, mixin_use, run, prev>>

\* ModelValidator(data).validate() once more, by a new interpreter process
Revalidate ==
    /\ pc = "done"
    /\ UNCHANGED <<parserVars, args_str, split_args>>
    /\ run = 1
    /\ run' = 2
    /\ prev' = [e |-> errors, w |-> warnings]
    /\ errors' = <<>>
    /\ warnings' = <<>>
    /\ shapes' = {}
    /\ choices' = {}
    /\ mixins' = {}
    /\ mixin_fields' = <<>>
    /\ mixin_type_params' = <<>>
    /\ mixin_use' = <<>>
    /\ pc' = PassOrder[1]
    /\ UNCHANGED <<data, exc>>

\* ------------------------------------------------------------------------
\* Documents
\* ------------------------------------------------------------------------

MaxUse == 2
MaxParams == 2
MaxArgs == 2
MaxVariants == 3

A == <<"A">>
B == <<"B">>
S == <<"S">>
T == <<"T">>
U == <<"U">>
V == <<"V">>
M == <<"M">>
N == <<"N">>
W == <<"W">>
Dotted == <<"a", ".", "b">>
Bogus == <<"bogus">>
x == <<"x">>
y == <<"y">>
z == <<"z">>
int == <<"i", "n", "t">>

SeqsUpTo(set, n) == UNION {[1..k -> set] : k \in 0..n}

Document(meta, shapesSection, choicesSection, mixinsSection, extra) ==
    [meta |-> meta, shapes |-> shapesSection, choices |-> choicesSection,
     mixins |-> mixinsSection, extra |-> extra]

Meta(name, version, description, namespace) ==
    [k |-> "dict", name |-> name, version |-> version, description |-> description,
     namespace |-> namespace]

GoodMeta == Meta("str", "str", "str", "absent")

MixinBody(type_params, use, fields) ==
    [k |-> "dict", extra |-> <<>>, type_params |-> type_params, use |-> use,
     fields |-> fields]

ShapeBody(use, fields) == [k |-> "dict", extra |-> <<>>, use |-> use, fields |-> fields]

\* the parser leaves out an empty use list
UseOf(refs) == IF refs = <<>> THEN PyNone ELSE PyListOf(refs)

\* two mixins composing each other freely, and a shape composing them; the
\* fields of A may be empty, and those of B missing when the shape composes
\* nothing
GraphDocuments ==
    LET fieldMaps == {PyDictOf(<<>>), PyDictOf(<< <<x, int>> >>), PyDictOf(<< <<y, int>> >>)}
        uses == SeqsUpTo({A, B}, MaxUse)
        shorter == SeqsUpTo({A, B}, MaxUse - 1)
        Doc(us, ua, ub, fa, fb) ==
            Document(GoodMeta,
                     PyDictOf(<< <<S, ShapeBody(UseOf(us), PyDictOf(<< <<z, int>> >>))>> >>),
                     PyNone,
                     PyDictOf(<< <<A, MixinBody(PyNone, UseOf(ua), fa)>>,
                                <<B, MixinBody(PyNone, UseOf(ub), fb)>> >>),
                     <<>>)
    IN {Doc(us, ua, ub, fa, fb) :
            us \in uses, ua \in uses, ub \in shorter, fa \in fieldMaps,
            fb \in fieldMaps \ {PyDictOf(<<>>)}}
       \cup {Doc(<<>>, ua, ub, PyDictOf(<< <<x, int>> >>), PyNone) :
                ua \in uses, ub \in shorter}

\* type expressions as the parser writes them
Coll(args) == <<"[">> \o Join(args, CommaSpace) \o <<"]">>
Assoc(key_type, val_type) == <<"{">> \o key_type \o CommaSpace \o val_type \o <<"}">>
Named(name, args) == name \o <<"<">> \o Join(args, CommaSpace) \o <<">">>
Nullable(base) == Append(base, "?")

\* a mixin reference as the parser writes it
MixinRef(name, args) == IF args = <<>> THEN name ELSE Named(name, args)

\* a generic mixin V, a mixin W<T> composing V<T>, and a shape using one of them
GenericFieldTypes ==
    {T, Nullable(T), Coll(<<T>>), Assoc(T, U), Named(B, <<T>>), Named(Dotted, <<T>>),
     Nullable(Coll(<<T, x>>)), Named(B, <<Coll(<<T>>), Nullable(Assoc(x, U))>>), x,
     Coll(<<Named(B, <<Nullable(x)>>)>>), Assoc(Nullable(x), Named(B, <<y>>))}

GenericDocuments ==
    LET params == SeqsUpTo({T, U}, MaxParams)
        fieldMaps == {PyDictOf(<< <<x, ty>> >>) : ty \in GenericFieldTypes} \cup {PyNone}
        refs == {MixinRef(V, args) : args \in SeqsUpTo({B, Nullable(y)}, MaxArgs)}
                    \cup {MixinRef(W, <<B>>), MixinRef(W, <<V>>)}
        composing == {PyNone,
                      PyDictOf(<< <<W, MixinBody(PyListOf(<<T>>),
                                                 PyListOf(<<MixinRef(V, <<T>>)>>),
                                                 PyDictOf(<< <<y, T>> >>))>> >>)}
    IN {Document(GoodMeta,
                 PyDictOf(<< <<S, ShapeBody(PyListOf(<<ref>>), PyDictOf(<< <<z, int>> >>))>> >>),
                 PyNone,
                 PyDictOf(<< <<V, MixinBody(UseOf(tp), PyNone, fm)>> >>
                          \o (IF w.k = "dict" THEN w.v ELSE <<>>)),
                 <<>>) :
            tp \in params, fm \in fieldMaps, ref \in refs, w \in composing}

\* a field whose type mentions the mixin M: in a shape, in a choice (common
\* block or variant), or in a mixin that a shape composes
MixinMentions ==
    {M, Nullable(M), Coll(<<M>>), Coll(<<x, Nullable(M)>>), Assoc(x, M), Named(B, <<M>>),
     Named(Dotted, <<M>>), int}

TypeDocuments ==
    LET mixinM == <<M, MixinBody(PyNone, PyNone, PyDictOf(<< <<x, int>> >>))>>
        plain == PyDictOf(<< <<z, int>> >>)
        Field(ty) == PyDictOf(<< <<y, ty>> >>)
    IN UNION {
        { Document(GoodMeta, PyDictOf(<< <<S, ShapeBody(PyNone, Field(ty))>> >>), PyNone,
                   PyDictOf(<<mixinM>>), <<>>),
          Document(GoodMeta, PyNone,
                   PyDictOf(<< <<S, PyDictOf(<< <<Common, Field(ty)>>, <<A, PyDictOf(<<>>)>>,
                                               <<B, PyDictOf(<<>>)>> >>)>> >>),
                   PyDictOf(<<mixinM>>), <<>>),
          Document(GoodMeta, PyNone,
                   PyDictOf(<< <<S, PyDictOf(<< <<A, Field(ty)>>, <<B, PyNone>> >>)>> >>),
                   PyDictOf(<<mixinM>>), <<>>),
          Document(GoodMeta, PyDictOf(<< <<S, ShapeBody(PyListOf(<<V>>), plain)>> >>), PyNone,
                   PyDictOf(<< mixinM, <<V, MixinBody(PyNone, PyNone, Field(ty))>> >>), <<>>) }
        : ty \in MixinMentions}

\* hand-built documents with wrongly typed values in one mixin and one shape
HandBuiltDocuments ==
    LET type_params == {PyNone, PyOther, PyListOf(<<T>>), PyListOf(<<PyInt>>),
                        PyListOf(<<PyList>>)}
        mixinUses == {PyNone, PyOther, PyListOf(<<A>>), PyListOf(<<N>>), PyListOf(<<PyInt>>)}
        mixinFields == {PyNone, PyOther, PyDictOf(<<>>), PyDictOf(<< <<x, int>> >>),
                        PyDictOf(<< <<x, PyInt>> >>), PyDictOf(<< <<x, T>> >>)}
        shapeUses == {PyNone, PyOther, PyListOf(<<A>>), PyListOf(<<MixinRef(A, <<int>>)>>),
                      PyListOf(<<PyInt>>)}
        shapeFields == {PyNone, PyOther, PyDictOf(<<>>), PyDictOf(<< <<x, int>> >>),
                        PyDictOf(<< <<x, PyInt>> >>)}
        shapeBodies == {ShapeBody(su, sf) : su \in shapeUses,
                                            sf \in {PyDictOf(<< <<x, int>> >>),
                                                     PyDictOf(<< <<x, PyInt>> >>)}}
                       \cup {ShapeBody(PyNone, sf) : sf \in shapeFields}
    IN {Document(GoodMeta,
                 PyDictOf(<< <<S, sb>> >>),
                 PyNone,
                 PyDictOf(<< <<A, MixinBody(tp, mu, mf)>> >>),
                 <<>>) :
            tp \in type_params, mu \in mixinUses, mf \in mixinFields, sb \in shapeBodies}
    \cup {Document(GoodMeta, PyDictOf(<< <<S, sb>> >>), PyDictOf(<< <<B, PyOther>> >>),
                   PyDictOf(<< <<A, mb>> >>), <<>>) :
            sb \in {PyOther, [ShapeBody(PyNone, PyDictOf(<<>>)) EXCEPT !.extra = <<Bogus>>]},
            mb \in {PyOther,
                     [MixinBody(PyNone, PyListOf(<<N>>), PyNone) EXCEPT !.extra = <<Bogus>>]}}

\* documents whose sections declare the names A and B, with names shared
\* between sections
SectionDocuments ==
    LET names == {<<>>, <<A>>, <<A, B>>, <<B, A>>}
        metas == {PyNone, PyOther, GoodMeta, Meta("absent", "other", "absent", "empty")}
        Section(ns, bodies) ==
            IF ns = <<>> THEN {PyNone, PyDictOf(<<>>), PyOther}
            ELSE {PyDictOf([i \in 1..Len(ns) |-> <<ns[i], bodies[i]>>])}
        shapeBodies == << ShapeBody(PyNone, PyDictOf(<< <<x, Coll(<<Nullable(y)>>)>> >>)),
                          ShapeBody(PyListOf(<<N>>), PyDictOf(<<>>)) >>
        choiceBodies == << PyDictOf(<< <<x, PyNone>>, <<y, PyDictOf(<<>>)>> >>),
                           PyDictOf(<< <<x, PyDictOf(<< <<z, Named(V, <<int>>)>> >>)>> >>) >>
        mixinBodies == << MixinBody(PyNone, PyNone, PyDictOf(<< <<x, Named(V, <<int>>)>> >>)),
                          MixinBody(PyNone, PyNone, PyDictOf(<<>>)) >>
    IN UNION {UNION {
            {Document(m, sh, ch, mi, extra) :
                sh \in Section(sn, shapeBodies), ch \in Section(cn, choiceBodies),
                mi \in Section(mn, mixinBodies), m \in metas, extra \in {<<>>, <<Bogus>>}}
            : sn \in names} : cn \in names, mn \in names}

\* a shape declaring the field x that a composed mixin contributes (A
\* directly, B through A), with types that resolve with and without diagnostics
ShadowDocuments ==
    LET types == {int, Named(V, <<int>>), A, Coll(<<Nullable(y)>>), PyInt}
        uses == {<<A>>, <<B>>, <<A, A>>, <<B, A>>}
    IN {Document(GoodMeta,
                 PyDictOf(<< <<S, ShapeBody(PyListOf(us),
                                            PyDictOf(<< <<x, ty>>, <<z, int>> >>))>> >>),
                 PyNone,
                 PyDictOf(<< <<A, MixinBody(PyNone, PyNone, PyDictOf(<< <<x, int>> >>))>>,
                            <<B, MixinBody(PyNone, PyListOf(<<A>>),
                                           PyDictOf(<< <<y, int>> >>))>> >>),
                 <<>>) :
            us \in uses, ty \in types}

\* one choice S with up to MaxVariants variants (bare, empty, with a field or
\* wrongly typed), with and without a common block
ChoiceDocuments ==
    LET values == {PyNone, PyDictOf(<<>>), PyDictOf(<< <<x, int>> >>), PyOther}
        names == <<A, B, N, M, V, W>>
        commons == {<<>>, << <<Common, PyDictOf(<< <<y, int>> >>)>> >>,
                    << <<Common, PyOther>> >>}
    IN {Document(GoodMeta, PyNone,
                 PyDictOf(<< <<S, PyDictOf(c \o [i \in 1..Len(vs) |-> <<names[i], vs[i]>>])>> >>),
                 PyNone, <<>>) :
            vs \in SeqsUpTo(values, MaxVariants), c \in commons}

\* mixins A and B both declaring x (with different types), B optionally
\* composing A, and W composing them in either order with or without its own x
OverrideDocuments ==
    LET usesW == {<<A>>, <<B>>, <<A, B>>, <<B, A>>}
        usesB == {<<>>, <<A>>}
        fieldsW == {PyDictOf(<< <<x, Bogus>> >>), PyDictOf(<< <<y, int>> >>)}
    IN {Document(GoodMeta,
                 PyDictOf(<< <<S, ShapeBody(PyListOf(<<W>>), PyDictOf(<< <<z, int>> >>))>> >>),
                 PyNone,
                 PyDictOf(<< <<A, MixinBody(PyNone, PyNone,
                                           PyDictOf(<< <<x, int>>, <<y, Bogus>> >>))>>,
                            <<B, MixinBody(PyNone, UseOf(ub),
                                           PyDictOf(<< <<x, Named(V, <<int>>)>> >>))>>,
                            <<W, MixinBody(PyNone, PyListOf(uw), fw)>> >>),
                 <<>>) :
            uw \in usesW, ub \in usesB, fw \in fieldsW}

Documents ==
    GraphDocuments \cup GenericDocuments \cup TypeDocuments \cup HandBuiltDocuments
        \cup SectionDocuments \cup ShadowDocuments \cup ChoiceDocuments
        \cup OverrideDocuments


\* ------------------------------------------------------------------------
\* forma_parser._lex: one action per branch of its loop
\* ------------------------------------------------------------------------

Token(type, value, l, c) == [type |-> type, value |-> value, line |-> l, col |-> c]

\* LexError(msg, l, c) or ParseError(msg, l, c); at records where it was
\* raised: the index of the character whose branch raised it, or the number
\* of the offending token.  ErrAt(0, 0, 0): no exception was raised
ErrAt(l, c, k) == [line |-> l, col |-> c, at |-> k]

\* the dict singles, by the names of the TT constants
singles ==
    [ch \in {"(", ")", "[", "]", "{", "}", "<", ">", ":", ",", "?"} |->
        CASE ch = "(" -> "LPAREN"
          [] ch = ")" -> "RPAREN"
          [] ch = "[" -> "LBRACKET"
          [] ch = "]" -> "RBRACKET"
          [] ch = "{" -> "LBRACE"
          [] ch = "}" -> "RBRACE"
          [] ch = "<" -> "LANGLE"
          [] ch = ">" -> "RANGLE"
          [] ch = ":" -> "COLON"
          [] ch = "," -> "COMMA"
          [] ch = "?" -> "QUESTION"]

\* while i < len(source) and source[i] != "\n": i += 1
RECURSIVE LineEnd(_)
LineEnd(j) ==
    IF j <= Len(source) /\ source[j] /= "\n" THEN LineEnd(j + 1) ELSE j

\* while i < len(source) and (source[i].isalnum() or source[i] in "_."): i += 1
RECURSIVE IdentStop(_)
IdentStop(j) ==
    IF j <= Len(source) /\ source[j] \in Letters \cup Digits \cup {"_", "."}
    THEN IdentStop(j + 1)
    ELSE j

\* the loop over the characters of a string literal, from position j and
\* column c on: the position and column after the closing quote and the
\* characters collected, or ok = FALSE for an unterminated literal
RECURSIVE StringLoop(_, _, _)
StringLoop(j, c, buf) ==
    IF j > Len(source) THEN [ok |-> FALSE, index |-> j, col |-> c, buf |-> buf]
    ELSE IF source[j] = "\"" THEN [ok |-> TRUE, index |-> j + 1, col |-> c + 1, buf |-> buf]
    ELSE IF source[j] = "\n" THEN [ok |-> FALSE, index |-> j, col |-> c, buf |-> buf]
    ELSE IF source[j] = "\\" /\ j + 1 <= Len(source)
         THEN StringLoop(j + 2, c + 2,
                         Append(buf, CASE source[j + 1] = "n" -> "\n"
                                       [] source[j + 1] = "t" -> "\t"
                                       [] OTHER -> source[j + 1]))
    ELSE StringLoop(j + 1, c + 1, Append(buf, source[j]))

\* raise LexError(msg, l, c) from the branch of the character at index
RaiseLexError(l, c) ==
    /\ pc' = "raised"
    /\ exc' = "LexError"
    /\ err' = ErrAt(l, c, index)
    /\ UNCHANGED <<index, line, col, tokens, source, pos, ir>>
    /\ UNCHANGED <<data, errors, warnings, registryVars, run, prev,
                 args_str, split_args>>

\* the loop goes on with the character at j
Continue(j, l, c, toks) ==
    /\ index' = j
    /\ line' = l
    /\ col' = c
    /\ tokens' = toks
    /\ UNCHANGED <<pc, exc, err, source, pos, ir>>
    /\ UNCHANGED <<data, errors, warnings, registryVars, run, prev,
                 args_str, split_args>>

LexNewline ==
    /\ pc = "lex"
    /\ index <= Len(source)
    /\ source[index] = "\n"
    /\ Continue(index + 1, line + 1, 1, tokens)

LexWhitespace ==
    /\ pc = "lex"
    /\ index <= Len(source)
    /\ source[index] \in {" ", "\t", "\r"}
    /\ Continue(index + 1, line, col + 1, tokens)

LexLineComment ==
    /\ pc = "lex"
    /\ index + 1 <= Len(source)
    /\ source[index] = "/"
    /\ source[index + 1] = "/"
    /\ Continue(LineEnd(index), line, col, tokens)

LexString ==
    /\ pc = "lex"
    /\ index <= Len(source)
    /\ source[index] = "\""
    /\ LET End(r) ==
            IF r.ok
            THEN Continue(r.index, line, r.col,
                          Append(tokens, Token("STRING", r.buf, line, col)))
            ELSE RaiseLexError(line, col)
       IN End(StringLoop(index + 1, col + 1, <<>>))

LexSingle ==
    /\ pc = "lex"
    /\ index <= Len(source)
    /\ source[index] \in DOMAIN singles
    /\ Continue(index + 1, line, col + 1,
                Append(tokens, Token(singles[source[index]], <<source[index]>>, line, col)))

\* the identifier token appended with the index left where it was
LexWordStuck(j) ==
    Continue(index, line, col,
             Append(tokens, Token("IDENT", SubSeq(source, index, j - 1), line, col)))

\* the identifier token that starts at index and stops before j
LexWord(j) ==
    Continue(j, line, col + (j - index),
             Append(tokens, Token("IDENT", SubSeq(source, index, j - 1), line, col)))

LexIdentifier ==
    /\ pc = "lex"
    /\ index <= Len(source)
    /\ source[index] \in Letters \cup {"_"}
    /\ LexWord(IdentStop(index))

LexDigits ==
    /\ pc = "lex"
    /\ index <= Len(source)
    /\ source[index] \in Digits
    /\ LexWord(IdentStop(index))

LexUnexpected ==
    /\ pc = "lex"
    /\ index <= Len(source)
    /\ source[index] \notin {"\n", " ", "\t", "\r", "\""}
    /\ ~(source[index] = "/" /\ index + 1 <= Len(source) /\ source[index + 1] = "/")
    /\ source[index] \notin DOMAIN singles
    /\ source[index] \notin Letters \cup {"_"} \cup Digits
    /\ RaiseLexError(line, col)

\* the loop is over: the end-of-input token is appended and _lex returns
LexEnd ==
    /\ pc = "lex"
    /\ index > Len(source)
    /\ tokens' = Append(tokens, Token("EOF", <<>>, line, col))
    /\ pc' = "parse"
    /\ UNCHANGED <<source, index, line, col, pos, ir, exc, err>>
    /\ UNCHANGED <<data, errors, warnings, registryVars, run, prev,
                 args_str, split_args>>

\* ------------------------------------------------------------------------
\* forma_parser._Parser: parse() over the token list, as one action
\* ------------------------------------------------------------------------

\* the keywords _parse_form dispatches on and the keys of meta
Kw ==
    [model |-> <<"m", "o", "d", "e", "l">>,
     alias |-> <<"a", "l", "i", "a", "s">>,
     aliases |-> <<"a", "l", "i", "a", "s", "e", "s">>,
     mixin |-> <<"m", "i", "x", "i", "n">>,
     mixins |-> <<"m", "i", "x", "i", "n", "s">>,
     enum |-> <<"e", "n", "u", "m">>,
     enums |-> <<"e", "n", "u", "m", "s">>,
     type |-> <<"t", "y", "p", "e">>,
     types |-> <<"t", "y", "p", "e", "s">>,
     union |-> <<"u", "n", "i", "o", "n">>,
     unions |-> <<"u", "n", "i", "o", "n", "s">>,
     name |-> <<"n", "a", "m", "e">>,
     version |-> <<"v", "e", "r", "s", "i", "o", "n">>,
     description |-> <<"d", "e", "s", "c", "r", "i", "p", "t", "i", "o", "n">>]

\* self._peek(): self.tokens[self.pos]; past the end of the list Python
\* raises IndexError, which no parsing method catches
Peek(p) ==
    IF p \in 1..Len(tokens) THEN tokens[p] ELSE Token("IndexError", <<>>, 0, 0)

\* a parsing method returned val with self.pos at p (pos counts from 1)
Ok(p, val) == [ok |-> TRUE, pos |-> p, val |-> val]

\* a parsing method raised ParseError at the token at p
ParseErrorAt(p) == [ok |-> FALSE, pos |-> p, val |-> <<>>]

RECURSIVE ParseTypeExpr(_), ParseTypeArgs(_, _)

\* args = [self._parse_type_expr()]
\* while self._match(TT.COMMA): args.append(self._parse_type_expr())
ParseTypeArgs(p, args) ==
    LET Then(r) ==
            IF ~r.ok THEN r
            ELSE IF Peek(r.pos).type = "COMMA"
                 THEN ParseTypeArgs(r.pos + 1, Append(args, r.val))
            ELSE Ok(r.pos, Append(args, r.val))
    IN Then(ParseTypeExpr(p))

\* _parse_type_expr
ParseTypeExpr(p) ==
    LET \* if self._match(TT.QUESTION): base += "?"
        Question(q, base) ==
            IF Peek(q).type = "QUESTION" THEN Ok(q + 1, Append(base, "?")) ELSE Ok(q, base)
        \* after the argument list r: self._expect(close), then the joined text
        Close(r, close, before, after) ==
            IF ~r.ok THEN r
            ELSE IF Peek(r.pos).type /= close THEN ParseErrorAt(r.pos)
            ELSE Question(r.pos + 1, before \o Join(r.val, CommaSpace) \o after)
        \* {K, V} after its value type r
        AssocValue(key, r) ==
            IF ~r.ok THEN r
            ELSE IF Peek(r.pos).type /= "RBRACE" THEN ParseErrorAt(r.pos)
            ELSE Question(r.pos + 1, <<"{">> \o key \o CommaSpace \o r.val \o <<"}">>)
        \* {K, V} after its key type r
        AssocKey(r) ==
            IF ~r.ok THEN r
            ELSE IF Peek(r.pos).type /= "COMMA" THEN ParseErrorAt(r.pos)
            ELSE AssocValue(r.val, ParseTypeExpr(r.pos + 1))
    IN IF Peek(p).type = "LBRACKET"
       THEN Close(ParseTypeArgs(p + 1, <<>>), "RBRACKET", <<"[">>, <<"]">>)
       ELSE IF Peek(p).type = "LBRACE" THEN AssocKey(ParseTypeExpr(p + 1))
       ELSE IF Peek(p).type /= "IDENT" THEN ParseErrorAt(p)
       ELSE IF Peek(p + 1).type = "LANGLE"
            THEN Close(ParseTypeArgs(p + 2, <<>>), "RANGLE",
                       Append(tokens[p].value, "<"), <<">">>)
       ELSE Question(p + 1, tokens[p].value)

\* field parsing that does not put back an identifier without a ":"
ParseFieldsNoPushBack(p, fields) ==
    LET RECURSIVE Loop(_, _)
        Then(fs, name, r) ==
            IF ~r.ok THEN r ELSE Loop(r.pos, DictPut(fs, name, r.val))
        Loop(q, fs) ==
            IF Peek(q).type /= "IDENT" THEN Ok(q, fs)
            ELSE IF Peek(q + 1).type /= "COLON" THEN Ok(q + 1, fs)
            ELSE Then(fs, tokens[q].value, ParseTypeExpr(q + 2))
    IN Loop(p, fields)

\* _parse_fields_until_rparen; name_tok = self._advance() moves self.pos to
\* p + 1, and self.pos -= 1 puts it back on p when no ":" follows
RECURSIVE ParseFields(_, _)
ParseFields(p, fields) ==
    LET \* fields[name_tok.value] = type_str, and the loop goes on
        Then(name, r) ==
            IF ~r.ok THEN r ELSE ParseFields(r.pos, DictPut(fields, name, r.val))
    IN IF Peek(p).type /= "IDENT" THEN Ok(p, fields)
       ELSE IF Peek(p + 1).type /= "COLON" THEN Ok((p + 1) - 1, fields)
       ELSE Then(tokens[p].value, ParseTypeExpr(p + 2))

\* _parse_type_params
ParseTypeParams(p) ==
    LET RECURSIVE Loop(_, _)
        \* while self._match(TT.COMMA): ...; self._expect(TT.RANGLE)
        Loop(q, params) ==
            IF Peek(q).type = "COMMA"
            THEN IF Peek(q + 1).type /= "IDENT" THEN ParseErrorAt(q + 1)
                 ELSE Loop(q + 2, Append(params, tokens[q + 1].value))
            ELSE IF Peek(q).type /= "RANGLE" THEN ParseErrorAt(q)
            ELSE Ok(q + 1, params)
    IN IF Peek(p).type /= "LANGLE" THEN Ok(p, <<>>)
       ELSE IF Peek(p + 1).type /= "IDENT" THEN ParseErrorAt(p + 1)
       ELSE Loop(p + 2, <<tokens[p + 1].value>>)

\* _parse_mixin_body
ParseMixinBody(p, st) ==
    LET \* self.mixins[name_tok.value] = mixin_body
        Done(name, params, f) ==
            IF ~f.ok THEN f
            ELSE Ok(f.pos,
                    [st EXCEPT !.mixins =
                        DictPut(@, name,
                                MixinBody(IF params = <<>> THEN PyNone ELSE PyListOf(params),
                                          PyNone, PyDictOf(f.val)))])
        \* the fields after the type parameters tp
        Fields(name, tp) ==
            IF ~tp.ok THEN tp ELSE Done(name, tp.val, ParseFields(tp.pos, <<>>))
    IN IF Peek(p).type /= "IDENT" THEN ParseErrorAt(p)
       ELSE Fields(tokens[p].value, ParseTypeParams(p + 1))

\* a model form whose description is whatever token follows the version
ParseModelAnyDescription(p, st) ==
    IF Peek(p).type /= "IDENT" THEN ParseErrorAt(p)
    ELSE IF Peek(p + 1).type /= "IDENT" THEN ParseErrorAt(p + 1)
    ELSE Ok(p + 3, [st EXCEPT !.meta =
                        DictPut(DictPut(DictPut(@, Kw.name, tokens[p].value),
                                        Kw.version, tokens[p + 1].value),
                                Kw.description, Peek(p + 2).value)])

\* _parse_model, after its keyword
ParseModel(p, st) ==
    IF Peek(p).type /= "IDENT" THEN ParseErrorAt(p)
    ELSE IF Peek(p + 1).type /= "IDENT" THEN ParseErrorAt(p + 1)
    ELSE LET ver == tokens[p + 1].value
             named == DictPut(DictPut(st.meta, Kw.name, tokens[p].value), Kw.version,
                              IF StartsWith(ver, "v") THEN Tail(ver) ELSE ver)
         IN IF Peek(p + 2).type = "STRING"
            THEN Ok(p + 3, [st EXCEPT !.meta = DictPut(named, Kw.description,
                                                       tokens[p + 2].value)])
            ELSE Ok(p + 2, [st EXCEPT !.meta = named])

\* _parse_alias_body
ParseAliasBody(p, st) ==
    IF Peek(p).type /= "IDENT" THEN ParseErrorAt(p)
    ELSE IF Peek(p + 1).type /= "IDENT" THEN ParseErrorAt(p + 1)
    ELSE Ok(p + 2, [st EXCEPT !.type_aliases = DictPut(@, tokens[p].value, tokens[p + 1].value)])

\* _parse_aliases, after its keyword
RECURSIVE ParseAliases(_, _)
ParseAliases(p, st) ==
    LET Then(r) == IF ~r.ok THEN r ELSE ParseAliases(r.pos, r.val)
    IN IF Peek(p).type = "IDENT" THEN Then(ParseAliasBody(p, st)) ELSE Ok(p, st)

\* _parse_enum_body
ParseEnumBody(p, st) ==
    LET RECURSIVE Values(_, _)
        \* while self._peek().type == TT.IDENT: values.append(self._advance().value)
        Values(q, values) ==
            IF Peek(q).type = "IDENT" THEN Values(q + 1, Append(values, tokens[q].value))
            ELSE Ok(q, values)
        \* self.enums[name_tok.value] = values
        Done(name, r) == Ok(r.pos, [st EXCEPT !.enums = DictPut(@, name, r.val)])
    IN IF Peek(p).type /= "IDENT" THEN ParseErrorAt(p)
       ELSE Done(tokens[p].value, Values(p + 1, <<>>))

\* _Parser._parse_mixin_ref
ParserMixinRef(p) ==
    LET \* Name<Type, ...> after its arguments r
        Close(r, name) ==
            IF ~r.ok THEN r
            ELSE IF Peek(r.pos).type /= "RANGLE" THEN ParseErrorAt(r.pos)
            ELSE Ok(r.pos + 1, name \o <<"<">> \o Join(r.val, CommaSpace) \o <<">">>)
    IN IF Peek(p).type /= "IDENT" THEN ParseErrorAt(p)
       ELSE IF Peek(p + 1).type = "LANGLE"
            THEN Close(ParseTypeArgs(p + 2, <<>>), tokens[p].value)
       ELSE Ok(p + 1, tokens[p].value)

\* _parse_type_body
ParseTypeBody(p, st) ==
    LET RECURSIVE UseList(_, _)
        UseListNext(r, use) == IF ~r.ok THEN r ELSE UseList(r.pos, Append(use, r.val))
        \* the mixin references, up to and including the "]"
        UseList(q, use) ==
            IF Peek(q).type = "IDENT" THEN UseListNext(ParserMixinRef(q), use)
            ELSE IF Peek(q).type /= "RBRACKET" THEN ParseErrorAt(q)
            ELSE Ok(q + 1, use)
        \* self.types[name_tok.value] = type_body
        Done(name, use, f) ==
            IF ~f.ok THEN f
            ELSE Ok(f.pos,
                    [st EXCEPT !.types =
                        DictPut(@, name, ShapeBody(UseOf(use), PyDictOf(f.val)))])
        \* the fields after the mixin list u
        Fields(name, u) ==
            IF ~u.ok THEN u ELSE Done(name, u.val, ParseFields(u.pos, <<>>))
    IN IF Peek(p).type /= "IDENT" THEN ParseErrorAt(p)
       ELSE Fields(tokens[p].value,
                   IF Peek(p + 1).type = "LBRACKET" THEN UseList(p + 2, <<>>)
                   ELSE Ok(p + 1, <<>>))

\* _parse_union_body
ParseUnionBody(p, st) ==
    LET RECURSIVE Loop(_, _)
        \* a (common ...) or (Variant ...) block after its fields f
        Block(name, f, body) ==
            IF ~f.ok THEN f
            ELSE IF Peek(f.pos).type /= "RPAREN" THEN ParseErrorAt(f.pos)
            ELSE Loop(f.pos + 1, DictPut(body, name, PyDictOf(f.val)))
        Loop(q, body) ==
            IF Peek(q).type \in {"RPAREN", "EOF"} THEN Ok(q, body)
            ELSE IF Peek(q).type = "LPAREN"
                 THEN IF Peek(q + 1).type /= "IDENT" THEN ParseErrorAt(q + 1)
                      ELSE Block(tokens[q + 1].value, ParseFields(q + 2, <<>>), body)
            ELSE IF Peek(q).type = "IDENT"
                 THEN Loop(q + 1, DictPut(body, tokens[q].value, PyDictOf(<<>>)))
            ELSE ParseErrorAt(q)
        \* self.unions[name_tok.value] = union_body
        Done(name, r) ==
            IF ~r.ok THEN r
            ELSE Ok(r.pos, [st EXCEPT !.unions = DictPut(@, name, PyDictOf(r.val))])
    IN IF Peek(p).type /= "IDENT" THEN ParseErrorAt(p)
       ELSE Done(tokens[p].value, Loop(p + 1, <<>>))

\* the body method of (mixin ...), (enum ...), (type ...) or (union ...)
ParseBody(kind, p, st) ==
    CASE kind = Kw.mixin -> ParseMixinBody(p, st)
      [] kind = Kw.enum -> ParseEnumBody(p, st)
      [] kind = Kw.type -> ParseTypeBody(p, st)
      [] kind = Kw.union -> ParseUnionBody(p, st)

\* _parse_mixins, _parse_enums, _parse_types and _parse_unions after their
\* keyword: while self._peek().type == TT.LPAREN, a body and a ")"
RECURSIVE ParseBodies(_, _, _)
ParseBodies(kind, p, st) ==
    LET Then(r) ==
            IF ~r.ok THEN r
            ELSE IF Peek(r.pos).type /= "RPAREN" THEN ParseErrorAt(r.pos)
            ELSE ParseBodies(kind, r.pos + 1, r.val)
    IN IF Peek(p).type = "LPAREN" THEN Then(ParseBody(kind, p + 1, st)) ELSE Ok(p, st)

\* _parse_form; the method chosen consumes the keyword at p + 1 first
ParseForm(p, st) ==
    LET keyword == tokens[p + 1].value
        \* self._expect(TT.RPAREN)
        End(r) ==
            IF ~r.ok THEN r
            ELSE IF Peek(r.pos).type /= "RPAREN" THEN ParseErrorAt(r.pos)
            ELSE Ok(r.pos + 1, r.val)
    IN IF Peek(p).type /= "LPAREN" THEN ParseErrorAt(p)
       ELSE IF Peek(p + 1).type /= "IDENT" THEN ParseErrorAt(p + 1)
       ELSE End(CASE keyword = Kw.model -> ParseModel(p + 2, st)
                  [] keyword = Kw.alias -> ParseAliasBody(p + 2, st)
                  [] keyword = Kw.aliases -> ParseAliases(p + 2, st)
                  [] keyword = Kw.mixin -> ParseBody(Kw.mixin, p + 2, st)
                  [] keyword = Kw.mixins -> ParseBodies(Kw.mixin, p + 2, st)
                  [] keyword = Kw.enum -> ParseBody(Kw.enum, p + 2, st)
                  [] keyword = Kw.enums -> ParseBodies(Kw.enum, p + 2, st)
                  [] keyword = Kw.type -> ParseBody(Kw.type, p + 2, st)
                  [] keyword = Kw.types -> ParseBodies(Kw.type, p + 2, st)
                  [] keyword = Kw.union -> ParseBody(Kw.union, p + 2, st)
                  [] keyword = Kw.unions -> ParseBodies(Kw.union, p + 2, st)
                  [] OTHER -> ParseErrorAt(p + 1))

\* the loop of parse()
RECURSIVE ParseLoop(_, _)
ParseLoop(p, st) ==
    LET Then(r) == IF ~r.ok THEN r ELSE ParseLoop(r.pos, r.val)
    IN IF Peek(p).type = "EOF" THEN Ok(p, st)
       ELSE IF Peek(p).type = "LPAREN" THEN Then(ParseForm(p, st))
       ELSE ParseErrorAt(p)

\* the IR dict parse() builds: the non-empty accumulators, in this order
BuildIR(st) ==
    LET names == <<"meta", "types", "unions", "enums", "type_aliases", "mixins">>
        RECURSIVE From(_)
        From(k) ==
            IF k > Len(names) THEN <<>>
            ELSE (IF st[names[k]] /= <<>> THEN << <<names[k], st[names[k]]>> >> ELSE <<>>)
                 \o From(k + 1)
    IN From(1)

\* _Parser(tokens).parse() returns the IR or raises ParseError; the
\* accumulators of _Parser.__init__ are empty ordered dicts
ParseTokens ==
    /\ pc = "parse"
    /\ LET accumulators ==
            [meta |-> <<>>, types |-> <<>>, unions |-> <<>>, enums |-> <<>>,
             type_aliases |-> <<>>, mixins |-> <<>>]
           Return(r) ==
            /\ pos' = r.pos
            /\ IF r.ok
               THEN /\ ir' = BuildIR(r.val)
                    /\ pc' = "parsed"
                    /\ UNCHANGED <<exc, err>>
               ELSE /\ pc' = "raised"
                    /\ exc' = IF r.pos \in 1..Len(tokens) THEN "ParseError"
                              ELSE "IndexError"
                    /\ err' = ErrAt(Peek(r.pos).line, Peek(r.pos).col, r.pos)
                    /\ UNCHANGED ir
       IN Return(ParseLoop(pos, accumulators))
    /\ UNCHANGED <<source, index, line, col, tokens>>
    /\ UNCHANGED <<data, errors, warnings, registryVars, run, prev,
                 args_str, split_args>>

\* ------------------------------------------------------------------------
\* The sources parse_forma() is run on
\* ------------------------------------------------------------------------

MaxSrcLen == 5

\* top-level forms, each a list of words
Forms ==
    LET LP == <<"(">>
        RP == <<")">>
        LB == <<"[">>
        RB == <<"]">>
        LA == <<"<">>
        RA == <<">">>
        Colon == <<":">>
        Comma == <<",">>
        namespace == <<"n", "a", "m", "e", "s", "p", "a", "c", "e">>
        choice == <<"c", "h", "o", "i", "c", "e">>
        shape == <<"s", "h", "a", "p", "e">>
        common == <<"c", "o", "m", "m", "o", "n">>
    IN { <<LP, namespace, Dotted, RP>>,
         <<LP, namespace, N, RP>>,
         <<LP, Kw.model, M, <<"v", "1">>, RP>>,
         <<LP, Kw.model, M, <<"1", ".", "0">>, <<"\"", "a", "\\", "n", "\"">>, RP>>,
         <<LP, Kw.mixin, A, x, Colon, int, RP>>,
         <<LP, Kw.mixin, B, LB, A, RB, y, Colon, int, RP>>,
         <<LP, Kw.mixin, V, LA, T, Comma, U, RA, LB, A, B, RB, x, Colon, T, RP>>,
         <<LP, Kw.mixin, V, LA, T, RA, x, Colon, T, RP>>,
         <<LP, Kw.mixins, LP, A, x, Colon, int, RP,
                          LP, B, y, Colon, LB, int, RB, <<"?">>, RP, RP>>,
         <<LP, shape, S, x, Colon, int, RP>>,
         <<LP, Append(shape, "s"), LP, S, x, Colon, int, RP, RP>>,
         <<LP, choice, U, x, y, RP>>,
         <<LP, Append(choice, "s"), LP, U, x, y, RP, RP>>,
         <<LP, Kw.type, S, LB, A, V, LA, int, RA, RB,
               x, Colon, <<"{">>, int, Comma, T, <<"}">>, RP>>,
         <<LP, Kw.types, LP, S, x, Colon, V, LA, int, Comma, T, <<"?">>, RA, RP, RP>>,
         <<LP, Kw.union, U, LP, common, x, Colon, int, RP, LP, A, y, Colon, int, RP, B, RP>>,
         <<LP, Kw.unions, LP, U, A, B, RP, RP>>,
         <<LP, Kw.enum, N, x, y, RP>>,
         <<LP, Kw.enums, LP, N, x, RP, RP>>,
         <<LP, Kw.alias, A, B, RP>>,
         <<LP, Kw.aliases, A, B, S, T, RP>>,
         <<LP, <<"b", "o", "g", "u", "s">>, RP>>,
         <<LP, RP>>,
         <<x>>,
         <<LP, Kw.mixin, A>>,
         <<LP, Kw.model, M, <<"v", "1">> >>,
         <<LP, Kw.mixin, A, x, Colon, int, y, RP>>,
         <<LP, Kw.type, S, LB, Dotted, LA, int, RA, V, LA, int, Comma, T, RA, RB, RP>> }

\* one form, two forms on two lines, and a form between two namespace forms;
\* the text of a form is its words with one space between two words
ParserSources ==
    LET Text(form) == Join(form, <<" ">>)
        first == <<"(", "n", "a", "m", "e", "s", "p", "a", "c", "e", " ", "a", ".", "b", ")", "\n">>
        second == <<"\n", "(", "n", "a", "m", "e", "s", "p", "a", "c", "e", " ", "N", ")">>
    IN {Text(f) : f \in Forms}
        \cup {Text(f) \o <<"\n">> \o Text(g) : f, g \in Forms}
        \cup {first \o Text(f) \o second : f \in Forms}

\* comments, tabs and carriage returns, and strings that hold an escaped
\* newline
CommentSources ==
    { <<"/", "*", " ", "a", " ", "/", "*", " ", "b", " ", "*", "/", " ", "c", " ", "*", "/">>,
      <<"/", "/", " ", "a", "\n", "\t", "(", ")", "\r", "\n">>,
      <<"(", "\n", " ", "/", "*", " ", "a">>,
      <<"\"", "a", "\\", "\n", "b", "\"", "\n", " ", "\"", "c">>,
      <<"\"", "a", "\\", "\n", "b", "\"", "\n", " ", "/", "*", "c">> }


Init ==
    /\ data \in Documents
    /\ errors = <<>>
    /\ warnings = <<>>
    /\ shapes = {}
    /\ choices = {}
    /\ mixins = {}
    /\ mixin_fields = <<>>
    /\ mixin_type_params = <<>>
    /\ mixin_use = <<>>
    /\ pc = PassOrder[1]
    /\ exc = ""
    /\ run = 1
    /\ prev = [e |-> <<>>, w |-> <<>>]
    /\ source = <<>>
    /\ index = 1
    /\ line = 1
    /\ col = 1
    /\ tokens = <<>>
    /\ pos = 1
    /\ ir = <<>>
    /\ args_str = <<>>
    /\ split_args = <<>>
    /\ err = ErrAt(0, 0, 0)

Next ==
    \/ BuildTypeRegistry
    \/ CheckDuplicates
    \/ CheckTopLevelKeys
    \/ CheckMeta
    \/ CheckMixins
    \/ CheckChoices
    \/ CheckShapes

Spec == Init /\ [][Next]_vars

NextTwice == Next \/ Revalidate

SpecTwice == Init /\ [][NextTwice]_vars

\* parse_forma(source) on every text of up to MaxSrcLen of the characters
\* that open, close or escape a string or a comment, and on the sources
\* above; no document is being validated
InitParse ==
    /\ \/ \E n \in 0..MaxSrcLen : source \in [1..n -> {"\"", "\\", "\n", "/", "*"}]
       \/ source \in ParserSources
       \/ source \in CommentSources
    /\ index = 1
    /\ line = 1
    /\ col = 1
    /\ tokens = <<>>
    /\ pos = 1
    /\ ir = <<>>
    /\ args_str = <<>>
    /\ split_args = <<>>
    /\ err = ErrAt(0, 0, 0)
    /\ pc = "lex"
    /\ exc = ""
    /\ data = Document(PyNone, PyNone, PyNone, PyNone, <<>>)
    /\ errors = <<>>
    /\ warnings = <<>>
    /\ shapes = {}
    /\ choices = {}
    /\ mixins = {}
    /\ mixin_fields = <<>>
    /\ mixin_type_params = <<>>
    /\ mixin_use = <<>>
    /\ run = 1
    /\ prev = [e |-> <<>>, w |-> <<>>]

NextParse ==
    \/ LexNewline
    \/ LexWhitespace
    \/ LexLineComment
    \/ LexString
    \/ LexSingle
    \/ LexIdentifier
    \/ LexDigits
    \/ LexUnexpected
    \/ LexEnd
    \/ ParseTokens

SpecParse == InitParse /\ [][NextParse]_vars

\* ------------------------------------------------------------------------
\* _split_type_args() on its own
\* ------------------------------------------------------------------------

\* an argument list as it is written between the delimiters of a type
\* expression: one to MaxArgs type expressions, separated by "," or ", "
InitSplit ==
    /\ LET string == <<"s", "t", "r", "i", "n", "g">>
           json == <<"j", "s", "o", "n">>
           types == {int, Nullable(x), Assoc(string, json), Coll(<<T, x>>),
                     Named(B, <<Coll(<<T>>), Nullable(Assoc(x, U))>>),
                     Named(Dotted, <<Nullable(T), U>>),
                     Assoc(Coll(<<x, y>>), Named(V, <<x, Coll(<<y>>)>>))}
           lists == SeqsUpTo(types, MaxArgs) \ {<<>>}
       IN \/ args_str \in {Join(l, CommaSpace) : l \in lists}
          \/ args_str \in {Join(l, <<",">>) : l \in lists}
    /\ split_args = <<>>
    /\ pc = "split"
    /\ exc = ""
    /\ source = <<>>
    /\ index = 1
    /\ line = 1
    /\ col = 1
    /\ tokens = <<>>
    /\ pos = 1
    /\ ir = <<>>
    /\ err = ErrAt(0, 0, 0)
    /\ data = Document(PyNone, PyNone, PyNone, PyNone, <<>>)
    /\ errors = <<>>
    /\ warnings = <<>>
    /\ shapes = {}
    /\ choices = {}
    /\ mixins = {}
    /\ mixin_fields = <<>>
    /\ mixin_type_params = <<>>
    /\ mixin_use = <<>>
    /\ run = 1
    /\ prev = [e |-> <<>>, w |-> <<>>]

\* args = _split_type_args(args_str)
SplitArgs ==
    /\ pc = "split"
    /\ split_args' = SplitTypeArgs(args_str)
    /\ pc' = "returned"
    /\ UNCHANGED <<args_str, exc, parserVars>>
    /\ UNCHANGED <<data, errors, warnings, registryVars, run, prev>>

SpecSplit == InitSplit /\ [][SplitArgs]_vars

\* ------------------------------------------------------------------------
\* Properties
\* ------------------------------------------------------------------------

\* validate() has returned or raised
Finished == pc \in {"done", "raised"}

Indices(list, code) == {i \in 1..Len(list) : list[i].code = code}

CountCode(list, code) == Cardinality(Indices(list, code))

At(list, code, location) == {i \in Indices(list, code) : list[i].location = location}

Items(section) == IF section.k = "dict" THEN section.v ELSE <<>>

\* the document declares exactly the mixins A and B, A composing [B] and B
\* composing [A], both with non-empty fields
CycleAB ==
    LET items == Items(data.mixins) IN
    /\ SeqToSet(DictKeys(items)) = {A, B}
    /\ Len(items) = 2
    /\ \A i \in 1..2 :
        LET body == items[i][2] IN
        /\ body.k = "dict"
        /\ body.fields.k = "dict"
        /\ Len(body.fields.v) > 0
        /\ body.use = PyListOf(<<IF items[i][1] = A THEN B ELSE A>>)

\* C1 as stated: for mixins A and B composing each other, validate() emits
\* exactly one E091 in total, naming the cycle path A -> B -> A.
C1_OneE091InTotal ==
    (CycleAB /\ Finished) =>
        /\ CountCode(errors, "E091") = 1
        /\ \A i \in Indices(errors, "E091") :
              errors[i].message[2] = Join(<<A, B, A>>, Arrow)

\* C1 amended: for mixins A and B composing each other, validate() emits
\* exactly two E091 errors, one per mixin: the one located at mixins.A names
\* the path A -> B -> A, the one located at mixins.B names B -> A -> B.
C1_OneE091PerMixin ==
    (CycleAB /\ Finished) =>
        /\ CountCode(errors, "E091") = 2
        /\ \E i \in Indices(errors, "E091") :
              /\ errors[i].location = << <<"mixins">>, A >>
              /\ errors[i].message[2] = Join(<<A, B, A>>, Arrow)
        /\ \E i \in Indices(errors, "E091") :
              /\ errors[i].location = << <<"mixins">>, B >>
              /\ errors[i].message[2] = Join(<<B, A, B>>, Arrow)

C1_Witness == CycleAB /\ pc = "done" /\ CountCode(errors, "E091") = 2

\* the use list of a shape body, empty when there is none
UseEntries(body) == IF body.k = "dict" /\ body.use.k = "list" THEN body.use.v ELSE <<>>

ShapeUseLoc(name) == << <<"shapes">>, name, <<"use">> >>

\* the names of the effective (transitively resolved) fields of a reference
EffectiveNames(ref) ==
    IF DictHas(mixin_fields, ref.name)
    THEN SeqToSet(DictKeys(ResolveMixinFields(ref.name, ref.args, {}, mixin_fields).fields))
    ELSE {}

\* two different mixins of the use list contribute the same field name
SharedField(use_list) ==
    \E i, j \in 1..Len(use_list) :
        LET ri == ParseMixinRef(Str(use_list[i]))
            rj == ParseMixinRef(Str(use_list[j]))
        IN /\ i < j
           /\ ri.name /= rj.name
           /\ ri.name \in mixins
           /\ rj.name \in mixins
           /\ EffectiveNames(ri) \cap EffectiveNames(rj) /= {}

\* the mixin declares the single field x and composes nothing
ContributesOnlyX(name) ==
    /\ DictHas(mixin_fields, name)
    /\ DictKeys(DictGet(mixin_fields, name)) = <<x>>
    /\ ~DictHas(mixin_use, name)

\* C2: for every shape, E090 is emitted if and only if two different mixins
\* of its use list contribute (through their effective fields) the same field
\* name; two independent mixins each contributing x yield exactly one E090.
C2_E090IffTwoMixins ==
    pc = "done" =>
        \A k \in 1..Len(Items(data.shapes)) :
            LET name == Items(data.shapes)[k][1]
                use_list == UseEntries(Items(data.shapes)[k][2])
            IN /\ (At(errors, "E090", ShapeUseLoc(name)) /= {}) <=> SharedField(use_list)
               /\ (use_list \in {<<A, B>>, <<B, A>>} /\ ContributesOnlyX(A)
                        /\ ContributesOnlyX(B))
                    => Cardinality(At(errors, "E090", ShapeUseLoc(name))) = 1

\* the number of type parameters the mixin's declaration lists
DeclaredParamCount(name) ==
    LET body == DictGet(Items(data.mixins), name) IN
    IF body.k = "dict" /\ body.type_params.k = "list" THEN Len(body.type_params.v) ELSE 0

\* the entries naming a declared mixin with another number of arguments
ArityMismatches(use_list) ==
    {i \in 1..Len(use_list) :
        LET ref == ParseMixinRef(Str(use_list[i])) IN
        ref.name \in mixins /\ Len(ref.args) /= DeclaredParamCount(ref.name)}

\* C3: for every shape, there is exactly one E086 per use entry that names a
\* declared mixin and supplies a number of type arguments different from the
\* number of type parameters the mixin declares, and no other E086.
C3_OneE086PerMismatch ==
    pc = "done" =>
        \A k \in 1..Len(Items(data.shapes)) :
            LET name == Items(data.shapes)[k][1]
                use_list == UseEntries(Items(data.shapes)[k][2])
            IN Cardinality(At(errors, "E086", ShapeUseLoc(name)))
                    = Cardinality(ArityMismatches(use_list))

\* identifiers are letter (letter | digit | "_" | ".")*
IsIdentChar(c) == IsWordChar(c) \/ c = "."

\* the end of the identifier that starts at position i
RECURSIVE IdentEnd(_, _)
IdentEnd(s, i) == IF i < Len(s) /\ IsIdentChar(s[i + 1]) THEN IdentEnd(s, i + 1) ELSE i

\* the type expression with every identifier that is a key of subst, and is
\* not the name of a generic, replaced by its value
RECURSIVE ReplaceParams(_, _, _)
ReplaceParams(s, i, subst) ==
    IF i > Len(s) THEN <<>>
    ELSE IF ~IsIdentChar(s[i]) THEN <<s[i]>> \o ReplaceParams(s, i + 1, subst)
    ELSE LET j == IdentEnd(s, i)
             ident == SubSeq(s, i, j)
             names == j < Len(s) /\ s[j + 1] = "<"
         IN (IF DictHas(subst, ident) /\ ~names THEN DictGet(subst, ident) ELSE ident)
                \o ReplaceParams(s, j + 1, subst)

\* the reference supplies as many arguments as the mixin declares parameters
\* (at least one, all distinct), and the mixin's own fields all have types
FullyApplied(ref) ==
    /\ DictHas(mixin_fields, ref.name)
    /\ DictHas(mixin_type_params, ref.name)
    /\ LET params == DictGet(mixin_type_params, ref.name) IN
        /\ Len(params) = Len(ref.args)
        /\ Len(params) > 0
        /\ \A i \in 1..Len(params) : IsStr(params[i])
        /\ Cardinality(SeqToSet(params)) = Len(params)

PositionalSubst(ref) ==
    LET params == DictGet(mixin_type_params, ref.name) IN
    [i \in 1..Len(params) |-> <<params[i], ref.args[i]>>]

\* C4: when a shape supplies a generic mixin with as many type arguments as
\* it declares parameters, each of the mixin's own fields is contributed with
\* every occurrence of a parameter in its type replaced by the positionally
\* matching argument, the rest of the type (nesting, trailing ?) kept.
C4_EveryOccurrenceReplaced ==
    pc = "done" =>
        \A k \in 1..Len(Items(data.shapes)) :
            LET use_list == UseEntries(Items(data.shapes)[k][2]) IN
            \A i \in 1..Len(use_list) :
                LET ref == ParseMixinRef(Str(use_list[i])) IN
                FullyApplied(ref) =>
                    LET own == DictGet(mixin_fields, ref.name)
                        got == ResolveMixinFields(ref.name, ref.args, {}, mixin_fields).fields
                    IN \A f \in 1..Len(own) :
                        IsStr(own[f][2]) =>
                            /\ DictHas(got, own[f][1])
                            /\ DictGet(got, own[f][1])
                                  = ReplaceParams(own[f][2], 1, PositionalSubst(ref))

\* the fields of a field map, each with the location its type is resolved at
SitesOf(fields, loc) ==
    IF fields.k = "dict"
    THEN {[loc |-> Append(loc, fields.v[i][1]), ty |-> fields.v[i][2]] :
            i \in 1..Len(fields.v)}
    ELSE {}

\* every declared field of the document: of shapes, of choices (common block
\* and variants) and of mixins
FieldSites ==
    UNION ({IF Items(data.shapes)[k][2].k = "dict"
            THEN SitesOf(Items(data.shapes)[k][2].fields,
                         << <<"shapes">>, Items(data.shapes)[k][1], <<"fields">> >>)
            ELSE {} : k \in 1..Len(Items(data.shapes))}
      \cup {UNION {SitesOf(Items(Items(data.choices)[k][2])[v][2],
                           << <<"choices">>, Items(data.choices)[k][1],
                              Items(Items(data.choices)[k][2])[v][1] >>) :
                    v \in 1..Len(Items(Items(data.choices)[k][2]))} :
            k \in 1..Len(Items(data.choices))}
      \cup {IF Items(data.mixins)[k][2].k = "dict"
            THEN SitesOf(Items(data.mixins)[k][2].fields,
                         << <<"mixins">>, Items(data.mixins)[k][1] >>)
            ELSE {} : k \in 1..Len(Items(data.mixins))})

\* the type expression is, or contains as an argument, the identifier name
Mentions(ty, name) ==
    \E i \in 1..Len(ty) :
        LET j == i + Len(name) - 1 IN
        /\ j <= Len(ty)
        /\ SubSeq(ty, i, j) = name
        /\ (i = 1 \/ ~IsIdentChar(ty[i - 1]))
        /\ (j = Len(ty) \/ (~IsIdentChar(ty[j + 1]) /\ ty[j + 1] /= "<"))

\* C5: every field (of a shape, a choice or a mixin) whose type is, or
\* contains as an argument, the name of a declared mixin yields E042 at the
\* field, and exactly one E042 when the type is exactly the mixin's name.
C5_MixinNeverAFieldType ==
    pc = "done" =>
        \A site \in FieldSites :
            IsStr(site.ty) =>
                /\ (\E m \in mixins : Mentions(site.ty, m))
                        => At(errors, "E042", site.loc) /= {}
                /\ site.ty \in mixins
                        => Cardinality(At(errors, "E042", site.loc)) = 1

\* every diagnostic of diags is in list
AllReported(diags, list) ==
    \A d \in 1..Len(diags) :
        \E i \in 1..Len(list) :
            /\ list[i].code = diags[d].code
            /\ list[i].message = diags[d].message
            /\ list[i].location = diags[d].location

\* C6: no diagnostic suppresses a later check: for every mixin declaration
\* (also one for which E060 was emitted), what the use-list check and the cycle
\* check report on their own is among the reported errors.
C6_EveryCheckRuns ==
    pc = "done" =>
        \A k \in 1..Len(Items(data.mixins)) :
            LET name == Items(data.mixins)[k][1]
                body == Items(data.mixins)[k][2]
            IN body.k = "dict" =>
                /\ AllReported(CheckMixinUse(name, body.use).e, errors)
                /\ AllReported(CheckMixinCycle(name).e, errors)

\* C7: validate() never raises: every document that is a mapping, also a
\* hand-built one with wrongly typed values, gets the pair (errors, warnings).
C7_NeverRaises == pc /= "raised"

\* C8: validating the same document twice yields the same errors and the same
\* warnings, in the same order.
C8_SameDiagnosticsTwice ==
    (run = 2 /\ pc = "done") =>
        /\ [i \in 1..Len(errors) |-> [errors[i] EXCEPT !.by = ""]]
                = [i \in 1..Len(prev.e) |-> [prev.e[i] EXCEPT !.by = ""]]
        /\ [i \in 1..Len(warnings) |-> [warnings[i] EXCEPT !.by = ""]]
                = [i \in 1..Len(prev.w) |-> [prev.w[i] EXCEPT !.by = ""]]

\* the place of a pass in the traversal order registry / duplicates /
\* top-level keys / meta, then mixins, then choices, then shapes
Rank(pass) ==
    CASE pass \in {"registry", "duplicates", "top_level_keys", "meta"} -> 1
      [] pass = "mixins" -> 2
      [] pass = "choices" -> 3
      [] pass = "shapes" -> 4

InTraversalOrder(list) ==
    \A i, j \in 1..Len(list) : i < j => Rank(list[i].by) <= Rank(list[j].by)

\* C9: in the errors and in the warnings, the diagnostics of the duplicate,
\* top-level-key and meta checks precede those of mixin validation, which
\* precede those of choice validation, which precede those of shape validation.
C9_TraversalOrder == InTraversalOrder(errors) /\ InTraversalOrder(warnings)

\* validate() returned errors from all four groups of passes
C9_Witness ==
    /\ pc = "done"
    /\ \A r \in 1..4 : \E i \in 1..Len(errors) : Rank(errors[i].by) = r
    /\ \E i, j \in 1..Len(warnings) : Rank(warnings[i].by) < Rank(warnings[j].by)

\* C10: validate() never changes the document it was given: no step of it
\* changes a section, a field map, a use list or a type string.
C10_DocumentUnchanged == [][data' = data]_vars

\* validate() returned after the shape S composed W<B>, W<T> composing V<T>:
\* the expansion substituted B for T in W's own field
C10_Witness ==
    /\ pc = "done"
    /\ \E k \in 1..Len(Items(data.shapes)) :
            UseEntries(Items(data.shapes)[k][2]) = <<MixinRef(W, <<B>>)>>
    /\ DictHas(mixin_fields, W)
    /\ DictHas(mixin_fields, V)
    /\ DictGet(mixin_use, W) = <<MixinRef(V, <<T>>)>>
    /\ DictGet(mixin_fields, W) = << <<y, T>> >>
    /\ DictGet(mixin_fields, V) /= <<>>
    /\ DictGet(ResolveMixinFields(W, <<B>>, {}, mixin_fields).fields, y) = B

\* the names each of the three sections defines
Defined ==
    [shapes |-> SeqToSet(SectionKeys(data.shapes)),
     choices |-> SeqToSet(SectionKeys(data.choices)),
     mixins |-> SeqToSet(SectionKeys(data.mixins))]

SectionPairs == {<<"shapes", "choices">>, <<"shapes", "mixins">>, <<"choices", "mixins">>}

\* the E100 errors that report name as defined in both sections of the pair
CollisionsReported(name, pair) ==
    {i \in Indices(errors, "E100") :
        /\ errors[i].message[1] = name
        /\ {errors[i].message[3], errors[i].message[5]} = {<<pair[1]>>, <<pair[2]>>}}

\* C11: for every pair of the sections shapes, choices and mixins that both
\* define a name, an E100 is emitted for that pair (three for a name defined in
\* all three sections), and no E100 names a name defined in only one section.
C11_E100PerPair ==
    pc = "done" =>
        /\ \A pair \in SectionPairs :
            \A name \in Defined[pair[1]] \cap Defined[pair[2]] :
                CollisionsReported(name, pair) /= {}
        /\ \A i \in Indices(errors, "E100") :
            \E pair \in SectionPairs :
                errors[i].message[1] \in Defined[pair[1]] \cap Defined[pair[2]]

\* the field names the mixins of the use list contribute to the shape
Contributed(use_list) ==
    UNION {IF ParseMixinRef(Str(use_list[i])).name \in mixins
           THEN EffectiveNames(ParseMixinRef(Str(use_list[i])))
           ELSE {} : i \in 1..Len(use_list)}

\* the diagnostics of the list at the location other than those with the
\* code, as (code, message) pairs in order
OthersAt(list, location, code) ==
    LET sel == SelectSeq(list, LAMBDA d : d.location = location /\ d.code /= code)
    IN [i \in 1..Len(sel) |-> <<sel[i].code, sel[i].message>>]

CodesAndMessages(diags) == [i \in 1..Len(diags) |-> <<diags[i].code, diags[i].message>>]

\* the own fields of the shapes that have the name of a contributed field
ShadowingFields ==
    UNION {LET name == Items(data.shapes)[k][1]
               body == Items(data.shapes)[k][2]
           IN IF body.k = "dict"
              THEN {site \in SitesOf(body.fields, << <<"shapes">>, name, <<"fields">> >>) :
                        site.loc[4] \in Contributed(UseEntries(body))}
              ELSE {} : k \in 1..Len(Items(data.shapes))}

\* C12: a shape's own field with the name of a field that a composed mixin
\* contributes gets exactly one W012 and no error for the shadowing: its other
\* diagnostics are exactly those of resolving its type.
C12_ShadowWarnsOnce ==
    pc = "done" =>
        \A site \in ShadowingFields :
            /\ Cardinality(At(warnings, "W012", site.loc)) = 1
            /\ IsStr(site.ty) =>
                /\ OthersAt(errors, site.loc, "W012")
                        = CodesAndMessages(ResolveType(site.ty, site.loc).e)
                /\ OthersAt(warnings, site.loc, "W012")
                        = CodesAndMessages(ResolveType(site.ty, site.loc).w)

\* validate() returned for a shape whose field x shadows the x that mixin B
\* contributes through A, the field's type resolving with a warning
C12_Witness ==
    /\ pc = "done"
    /\ \E site \in ShadowingFields :
        /\ site.ty = Named(V, <<int>>)
        /\ At(warnings, "W012", site.loc) /= {}
        /\ At(warnings, "W015", site.loc) /= {}
    /\ \E k \in 1..Len(Items(data.shapes)) : UseEntries(Items(data.shapes)[k][2]) = <<B>>

\* the keys of a choice body other than the reserved key common
VariantKeys(body) == SelectSeq(DictKeys(Items(body)), LAMBDA key : key /= Common)

ChoiceLoc(name) == << <<"choices">>, name >>

\* C13: for every choice whose body is a mapping, E050 is emitted exactly when
\* it has fewer than two keys other than common; three bare variants and no
\* common block give no error.
C13_E050IffFewerThanTwo ==
    pc = "done" =>
        \A k \in 1..Len(Items(data.choices)) :
            LET name == Items(data.choices)[k][1]
                body == Items(data.choices)[k][2]
            IN body.k = "dict" =>
                /\ (At(errors, "E050", ChoiceLoc(name)) /= {}) <=> Len(VariantKeys(body)) < 2
                /\ Cardinality(At(errors, "E050", ChoiceLoc(name))) <= 1
                /\ (Len(body.v) = 3 /\ data.meta = GoodMeta /\ Len(Items(data.choices)) = 1
                        /\ data.shapes = PyNone /\ data.mixins = PyNone /\ data.extra = <<>>
                        /\ \A v \in 1..3 : body.v[v][1] /= Common /\ body.v[v][2] = PyDictOf(<<>>))
                    => errors = <<>>

\* validate() returned for a choice with a common block and one variant (E050)
C13_Witness ==
    /\ pc = "done"
    /\ \E k \in 1..Len(Items(data.choices)) :
        LET name == Items(data.choices)[k][1]
            body == Items(data.choices)[k][2]
        IN /\ body.k = "dict"
           /\ DictHas(body.v, Common)
           /\ Len(body.v) = 2
           /\ At(errors, "E050", ChoiceLoc(name)) /= {}

\* validate() returned without errors for a choice of three bare variants
C13_ThreeBareVariants ==
    /\ pc = "done"
    /\ errors = <<>>
    /\ \E k \in 1..Len(Items(data.choices)) :
        LET body == Items(data.choices)[k][2]
        IN /\ body.k = "dict"
           /\ Len(body.v) = 3
           /\ \A v \in 1..3 : body.v[v][1] /= Common /\ body.v[v][2] = PyDictOf(<<>>)

\* the effective fields of a mixin reference
EffectiveOf(ref) == ResolveMixinFields(ref.name, ref.args, {}, mixin_fields).fields

\* the composed mixins of a declared mixin, as parsed references that have a
\* field map
ComposedRefs(name) ==
    LET use_list == IF DictHas(mixin_use, name) THEN DictGet(mixin_use, name) ELSE <<>>
        refs == [i \in 1..Len(use_list) |-> ParseMixinRef(Str(use_list[i]))]
    IN SelectSeq(refs, LAMBDA ref : DictHas(mixin_fields, ref.name))

\* the type the merge rule gives field f of mixin name: its own type if it
\* declares f, else the type in the last composed mixin that has f
MergedType(name, f) ==
    LET own == DictGet(mixin_fields, name)
        refs == ComposedRefs(name)
        having == {i \in 1..Len(refs) : DictHas(EffectiveOf(refs[i]), f)}
        last == CHOOSE i \in having : \A j \in having : j <= i
    IN IF DictHas(own, f) THEN DictGet(own, f) ELSE DictGet(EffectiveOf(refs[last]), f)

\* the field names the merge rule gives mixin name
MergedNames(name) ==
    SeqToSet(DictKeys(DictGet(mixin_fields, name)))
        \cup UNION {SeqToSet(DictKeys(EffectiveOf(ComposedRefs(name)[i]))) :
                        i \in 1..Len(ComposedRefs(name))}

\* the mixins whose use lists hold only strings
WellTypedUse ==
    \A i \in 1..Len(mixin_use) : \A j \in 1..Len(mixin_use[i][2]) : IsStr(mixin_use[i][2][j])

\* C20: a mixin's effective fields are its composed mixins' effective fields
\* merged in use-list order, a later one replacing an earlier one's field of
\* the same name, then its own fields replacing composed ones; a collision
\* inside one mixin's composition chain emits no diagnostic.
C20_LaterAndOwnOverride ==
    (pc = "done" /\ CountCode(errors, "E091") = 0 /\ WellTypedUse) =>
        /\ \A m \in 1..Len(mixin_fields) :
            LET name == mixin_fields[m][1]
                got == EffectiveOf([name |-> name, args |-> <<>>])
            IN /\ SeqToSet(DictKeys(got)) = MergedNames(name)
               /\ \A f \in MergedNames(name) : DictGet(got, f) = MergedType(name, f)
        /\ data \in OverrideDocuments => errors = <<>> /\ CountCode(warnings, "W012") = 0

\* validate() returned for a shape composing W, W composing [A, B] without
\* an own x: W's effective x is B's
C20_Witness ==
    /\ pc = "done"
    /\ data \in OverrideDocuments
    /\ DictGet(mixin_use, W) = <<A, B>>
    /\ ~DictHas(DictGet(mixin_fields, W), x)
    /\ DictGet(EffectiveOf([name |-> W, args |-> <<>>]), x) = Named(V, <<int>>)
    /\ At(warnings, "W015", << <<"shapes">>, S, <<"use">>, W, x >>) /= {}

\* ------------------------------------------------------------------------
\* Properties of parse_forma()
\* ------------------------------------------------------------------------

\* the source holds "/*" at k
OpensComment(k) == k + 1 <= Len(source) /\ source[k] = "/" /\ source[k + 1] = "*"

RECURSIVE CommentClose(_, _)
\* the position after the "*/" that returns the depth counter to zero, for a
\* comment read from j on at depth d; 0 if the source ends before
CommentClose(j, d) ==
    IF j + 1 > Len(source) THEN 0
    ELSE IF source[j] = "/" /\ source[j + 1] = "*" THEN CommentClose(j + 2, d + 1)
    ELSE IF source[j] = "*" /\ source[j + 1] = "/"
         THEN IF d = 1 THEN j + 2 ELSE CommentClose(j + 2, d - 1)
    ELSE CommentClose(j + 1, d)

\* the whole source is one block comment
OnlyAComment == OpensComment(1) /\ CommentClose(3, 1) = Len(source) + 1

\* C14: a source that is one (possibly nested) block comment is lexed without
\* error to the end-of-input token alone, and parsed to the empty IR
C14_NestedCommentIsEmpty ==
    OnlyAComment =>
        /\ pc /= "raised"
        /\ pc \in {"parse", "parsed"} => Len(tokens) = 1 /\ tokens[1].type = "EOF"
        /\ pc = "parsed" => ir = <<>>

RECURSIVE StringClose(_)
\* the position after the quote that closes a string literal read from j on;
\* 0 if a raw newline or the end of the source comes first
StringClose(j) ==
    IF j > Len(source) THEN 0
    ELSE IF source[j] = "\"" THEN j + 1
    ELSE IF source[j] = "\n" THEN 0
    ELSE IF source[j] = "\\" /\ j + 1 <= Len(source) THEN StringClose(j + 2)
    ELSE StringClose(j + 1)

\* an unterminated string literal or block comment opens at k
OpensUnterminated(k) ==
    \/ source[k] = "\"" /\ StringClose(k + 1) = 0
    \/ OpensComment(k) /\ CommentClose(k + 2, 1) = 0

NewlinesBefore(k) == {j \in 1..(k - 1) : source[j] = "\n"}

\* the line of the character at k: one more than the newlines before it
TrueLine(k) == 1 + Cardinality(NewlinesBefore(k))

\* the column of the character at k: its distance from the last newline
TrueCol(k) ==
    IF NewlinesBefore(k) = {} THEN k
    ELSE k - (CHOOSE j \in NewlinesBefore(k) : \A h \in NewlinesBefore(k) : h <= j)

\* C15: when the lexer comes to the opening delimiter of an unterminated
\* string literal or block comment, it raises LexError with the line and the
\* column of that delimiter
C15_ErrorAtOpeningDelimiter ==
    [][(pc = "lex" /\ index <= Len(source) /\ OpensUnterminated(index)) =>
            /\ pc' = "raised"
            /\ exc' = "LexError"
            /\ err'.line = TrueLine(index)
            /\ err'.col = TrueCol(index)]_vars

\* C16: each step of the lexer's loop advances the index within the source
\* or raises LexError, and the step that leaves the loop returns a token list
\* whose last token, and no other, is the end-of-input token
C16_LexerProgress ==
    [][pc = "lex" =>
            \/ pc' = "lex" /\ index' > index /\ index' <= Len(source) + 1
            \/ pc' = "raised" /\ exc' = "LexError"
            \/ /\ pc' = "parse"
               /\ tokens' /= <<>>
               /\ \A k \in 1..Len(tokens') :
                    (tokens'[k].type = "EOF") <=> (k = Len(tokens'))]_vars

\* a line comment, a tab, a carriage return and two newlines were skipped and
\* the two parentheses between them are followed by the end-of-input token
C16_Witness ==
    /\ pc = "parse"
    /\ source = <<"/", "/", " ", "a", "\n", "\t", "(", ")", "\r", "\n">>
    /\ Len(tokens) = 3
    /\ tokens[3] = Token("EOF", <<>>, 3, 1)

\* the lexer returned a token list and parse() returned or raised
ParseOver == pc \in {"parsed", "raised"} /\ exc /= "LexError"

\* parse() raised ParseError at the k-th token
RejectedAt(k) == pc = "raised" /\ exc = "ParseError" /\ err.at = k

Namespace == <<"n", "a", "m", "e", "s", "p", "a", "c", "e">>

SpecKeywords ==
    {Namespace, Kw.model, Kw.mixin, Kw.mixins,
     <<"c", "h", "o", "i", "c", "e">>, <<"c", "h", "o", "i", "c", "e", "s">>,
     <<"s", "h", "a", "p", "e">>, <<"s", "h", "a", "p", "e", "s">>}

\* C17: the identifier after the "(" of the first form is accepted when it is
\* one of namespace, model, mixin, mixins, choice, choices, shape, shapes and
\* is rejected with ParseError otherwise, and the IR has no other sections
\* than meta, mixins, choices and shapes
C17_DispatchKeywords ==
    (ParseOver /\ Len(tokens) >= 2 /\ tokens[1].type = "LPAREN" /\ tokens[2].type = "IDENT") =>
        /\ tokens[2].value \in SpecKeywords => ~RejectedAt(2)
        /\ tokens[2].value \notin SpecKeywords => RejectedAt(2)
        /\ pc = "parsed" =>
            \A k \in 1..Len(ir) : ir[k][1] \in {"meta", "mixins", "choices", "shapes"}

\* the number of "(" less the number of ")" before the k-th token
Depth(k) ==
    Cardinality({j \in 1..(k - 1) : tokens[j].type = "LPAREN"})
        - Cardinality({j \in 1..(k - 1) : tokens[j].type = "RPAREN"})

\* where the top-level forms (namespace IDENT) start
NamespaceForms ==
    {k \in 1..(Len(tokens) - 3) :
        /\ Depth(k) = 0
        /\ tokens[k].type = "LPAREN"
        /\ tokens[k + 1].type = "IDENT"
        /\ tokens[k + 1].value = Namespace
        /\ tokens[k + 2].type = "IDENT"
        /\ tokens[k + 3].type = "RPAREN"}

\* C18: a second namespace form makes parse() raise ParseError; a single
\* namespace form is not rejected, and the IR of a source that has one has
\* meta.namespace equal to its identifier
C18_NamespaceOnce ==
    ParseOver =>
        /\ Cardinality(NamespaceForms) >= 2 => pc = "raised" /\ exc = "ParseError"
        /\ \A k \in NamespaceForms :
            Cardinality(NamespaceForms) = 1 =>
                /\ \A j \in k..(k + 3) : ~RejectedAt(j)
                /\ pc = "parsed" =>
                    /\ DictHas(ir, "meta")
                    /\ DictHas(DictGet(ir, "meta"), Namespace)
                    /\ DictGet(DictGet(ir, "meta"), Namespace) = tokens[k + 2].value

\* the position after the type parameters of the mixin named by token 3
AfterTypeParams ==
    IF tokens[4].type /= "LANGLE" THEN 4
    ELSE 1 + CHOOSE k \in 4..Len(tokens) :
                /\ tokens[k].type \in {"RANGLE", "EOF"}
                /\ \A j \in 4..(k - 1) : tokens[j].type \notin {"RANGLE", "EOF"}

\* the token that closes the bracketed list opened at q
ClosingBracket(q) ==
    CHOOSE k \in q..Len(tokens) :
        /\ tokens[k].type \in {"RBRACKET", "EOF"}
        /\ \A j \in q..(k - 1) : tokens[j].type \notin {"RBRACKET", "EOF"}

\* the source starts with (mixin Name, optional type parameters, and a
\* bracketed list of mixin names
HasUseList ==
    /\ Len(tokens) >= 5
    /\ tokens[1].type = "LPAREN"
    /\ tokens[2].type = "IDENT"
    /\ tokens[2].value = Kw.mixin
    /\ tokens[3].type = "IDENT"
    /\ AfterTypeParams <= Len(tokens)
    /\ tokens[AfterTypeParams].type = "LBRACKET"
    /\ tokens[ClosingBracket(AfterTypeParams)].type = "RBRACKET"
    /\ \A j \in (AfterTypeParams + 1)..(ClosingBracket(AfterTypeParams) - 1) :
            tokens[j].type = "IDENT"

\* the names between the brackets, in declaration order
BracketedNames ==
    [j \in 1..(ClosingBracket(AfterTypeParams) - AfterTypeParams - 1) |->
        tokens[AfterTypeParams + j].value]

\* C19: the bracketed list after a mixin's name and type parameters is
\* accepted, and the mixin's use list is the list of its names in
\* declaration order
C19_MixinUseList ==
    (ParseOver /\ HasUseList) =>
        /\ ~RejectedAt(AfterTypeParams)
        /\ pc = "parsed" =>
            /\ DictHas(ir, "mixins")
            /\ DictHas(DictGet(ir, "mixins"), tokens[3].value)
            /\ DictGet(DictGet(ir, "mixins"), tokens[3].value).use = UseOf(BracketedNames)

\* ------------------------------------------------------------------------
\* Termination of validate()
\* ------------------------------------------------------------------------

\* how far validate() has come: the number of its pass, and one more than
\* the last pass once it has returned or raised
PassRank(p) == IF p \in {"done", "raised"} THEN Len(PassOrder) + 1 ELSE PassIndex(p)

\* the number of mixin names on the cycle paths that the diagnostics report
PathNames(diags) ==
    {Cardinality({k \in 1..Len(diags[i].message[2]) : diags[i].message[2][k] = "-"}) + 1 :
        i \in Indices(diags, "E091")}

\* C22: every step of validate() moves to a later pass or ends the run, so
\* a run ends after at most one step per pass; cycle detection from any
\* mixin follows a path of at most one more name than there are use lists,
\* and field resolution of a mixin that is already on the resolution path
\* returns the empty field map and leaves the tables alone
C22_ValidateTerminates ==
    [][/\ PassRank(pc') > PassRank(pc)
       /\ \A name \in SeqToSet(DictKeys(mixin_use)) \cup mixins :
            /\ \A n \in PathNames(DetectMixinCycle(name, {}, <<>>).e) :
                    n <= Len(mixin_use) + 1
            /\ ResolveMixinFields(name, <<>>, {name}, mixin_fields)
                    = [fields |-> <<>>, mf |-> mixin_fields, exc |-> ""]]_vars

\* a run that returned on a document whose mixin A composes itself and B,
\* with B composing A, and whose shape composes both
C22_Witness ==
    /\ pc = "done"
    /\ DictHas(mixin_use, A) /\ DictGet(mixin_use, A) = <<A, B>>
    /\ DictHas(mixin_use, B) /\ DictGet(mixin_use, B) = <<A>>
    /\ \E i \in 1..Len(Items(data.shapes)) :
            Items(data.shapes)[i][2].use = UseOf(<<A, B>>)
    /\ CountCode(errors, "E091") >= 1

\* ------------------------------------------------------------------------
\* Warnings of type resolution
\* ------------------------------------------------------------------------

\* the named generics of a type expression: each is written Name<...>
NamedGenerics(ty) == Cardinality({k \in 1..Len(ty) : ty[k] = "<"})

\* the arguments ending in "?" directly inside a collection or a named
\* generic: a "?" whose innermost open delimiter is "[" or "<"
RECURSIVE NullableArgs(_, _, _)
NullableArgs(ty, k, open) ==
    IF k > Len(ty) THEN 0
    ELSE IF ty[k] \in {"[", "{", "<"} THEN NullableArgs(ty, k + 1, <<ty[k]>> \o open)
    ELSE IF ty[k] \in {"]", "}", ">"} THEN NullableArgs(ty, k + 1, Tail(open))
    ELSE (IF ty[k] = "?" /\ open /= <<>> /\ Head(open) \in {"[", "<"} THEN 1 ELSE 0)
         + NullableArgs(ty, k + 1, open)

\* the mixin declares fields and no type parameters, so that each of its
\* field types is resolved
Unparameterised(body) ==
    body.k = "dict" /\ body.type_params.k = "none" /\ body.fields.k = "dict"

\* C23: resolving the type of a field emits one W015 per named generic of
\* the expression, whatever identifier names it, and one W019 per nullable
\* argument directly inside a collection or a named generic, at any depth,
\* and none for the nullable arguments of an association
C23_WarningsOfResolution ==
    pc = "done" =>
        \A i \in 1..Len(Items(data.mixins)) :
            LET name == Items(data.mixins)[i][1]
                body == Items(data.mixins)[i][2]
            IN Unparameterised(body) =>
                \A j \in 1..Len(body.fields.v) :
                    LET ty == body.fields.v[j][2]
                        loc == << <<"mixins">>, name, body.fields.v[j][1] >>
                    IN IsStr(ty) =>
                        /\ Cardinality(At(warnings, "W015", loc)) = NamedGenerics(ty)
                        /\ Cardinality(At(warnings, "W019", loc)) = NullableArgs(ty, 1, <<>>)

\* ------------------------------------------------------------------------
\* Field types built from type parameters
\* ------------------------------------------------------------------------

\* the names of a type expression: its maximal runs of identifier characters
NameStarts(ty) ==
    LET Ident(k) == ty[k] \in Letters \cup Digits \cup {"_", "."}
    IN {k \in 1..Len(ty) : Ident(k) /\ (k = 1 \/ ~Ident(k - 1))}

NameEnd(ty, k) ==
    LET Ident(j) == ty[j] \in Letters \cup Digits \cup {"_", "."}
    IN CHOOSE e \in k..Len(ty) :
        /\ \A j \in k..e : Ident(j)
        /\ (e = Len(ty) \/ ~Ident(e + 1))

\* the expression is built purely from the type parameters: each of its
\* names is a type parameter or the name of a generic (followed by "<")
PurelyParams(ty, params) ==
    /\ NameStarts(ty) /= {}
    /\ \A k \in NameStarts(ty) :
        \/ SubSeq(ty, k, NameEnd(ty, k)) \in params
        \/ NameEnd(ty, k) < Len(ty) /\ ty[NameEnd(ty, k) + 1] = "<"

\* the string type parameters a mixin body declares
ParamNames(body) ==
    IF body.type_params.k = "list"
    THEN {q \in SeqToSet(body.type_params.v) : IsStr(q)}
    ELSE {}

\* C25: in a finished run, the type of a declared mixin field is handed to
\* the type resolver exactly when it is not built purely from the mixin's
\* type parameters, and a field whose type is built purely from them has no
\* diagnostic at its location
C25_ExemptIffPurelyParams ==
    pc = "done" =>
        \A i \in 1..Len(Items(data.mixins)) :
            LET name == Items(data.mixins)[i][1]
                body == Items(data.mixins)[i][2]
            IN (body.k = "dict" /\ body.fields.k = "dict") =>
                \A j \in 1..Len(body.fields.v) :
                    LET ty == body.fields.v[j][2]
                        loc == << <<"mixins">>, name, body.fields.v[j][1] >>
                    IN IsStr(ty) =>
                        /\ TypeUsesOnlyParams(ty, ParamNames(body))
                                <=> PurelyParams(ty, ParamNames(body))
                        /\ PurelyParams(ty, ParamNames(body)) =>
                                \A d \in SeqToSet(errors) \cup SeqToSet(warnings) :
                                    d.location /= loc

\* ------------------------------------------------------------------------
\* One E091 per mixin that reaches a cycle
\* ------------------------------------------------------------------------

\* the names of the declared mixins
DeclaredMixins == SeqToSet(DictKeys(Items(data.mixins)))

\* the name a reference of a use list refers to: the text before its "<"
RefName(ref) ==
    IF \E k \in 1..Len(ref) : ref[k] = "<"
    THEN SubSeq(ref, 1, (CHOOSE k \in 1..Len(ref) :
                            ref[k] = "<" /\ \A j \in 1..(k - 1) : ref[j] /= "<") - 1)
    ELSE ref

\* the mixins that the use list of the declared mixin m names
UsedBy(m) ==
    UNION {IF b[2].k = "dict" /\ b[2].use.k = "list"
           THEN {RefName(r) : r \in {u \in SeqToSet(b[2].use.v) : IsStr(u)}}
           ELSE {} :
           b \in {it \in SeqToSet(Items(data.mixins)) : it[1] = m}}

\* the closure of a set of mixins under use lists
RECURSIVE UseClosure(_)
UseClosure(set) ==
    IF (UNION {UsedBy(m) : m \in set}) \subseteq set THEN set
    ELSE UseClosure(set \cup UNION {UsedBy(m) : m \in set})

\* a composition cycle is reachable from m through use lists
ReachesCycle(m) == \E c \in UseClosure({m}) : c \in UseClosure(UsedBy(c))

\* the declared mixin m has a non-empty field map
HasFields(m) ==
    \E b \in SeqToSet(Items(data.mixins)) :
        b[1] = m /\ b[2].k = "dict" /\ b[2].fields.k = "dict" /\ Len(b[2].fields.v) > 0

\* the E091 errors whose cycle path starts with m
E091From(m) ==
    {i \in Indices(errors, "E091") :
        SubSeq(errors[i].message[2], 1, Len(m) + Len(Arrow)) = m \o Arrow}

\* C27: a finished run has exactly one E091 whose path starts with m for
\* each declared mixin m with non-empty fields from which a cycle is
\* reachable through use lists, and no other E091
C27_OneE091PerReachingMixin ==
    pc = "done" =>
        /\ \A m \in DeclaredMixins :
                Cardinality(E091From(m)) = IF HasFields(m) /\ ReachesCycle(m) THEN 1 ELSE 0
        /\ CountCode(errors, "E091")
                = Cardinality({m \in DeclaredMixins : HasFields(m) /\ ReachesCycle(m)})

\* ------------------------------------------------------------------------
\* Substitution through a composing mixin
\* ------------------------------------------------------------------------

\* the document declares V<T> with one field x, W<T> composing V<T> with its
\* own field y: T, and a shape composing W<arg>
ComposedGeneric(arg) ==
    /\ Len(Items(data.mixins)) = 2
    /\ Items(data.mixins)[1][1] = V
    /\ Items(data.mixins)[1][2].type_params = PyListOf(<<T>>)
    /\ Items(data.mixins)[1][2].fields.k = "dict"
    /\ Items(data.mixins)[2][1] = W
    /\ Items(data.mixins)[2][2].use = PyListOf(<<MixinRef(V, <<T>>)>>)
    /\ Items(data.shapes)[1][2].use = PyListOf(<<MixinRef(W, <<arg>>)>>)

\* the diagnostics with this code at the field that mixin W contributes to
\* shape S
AtContributed(code, field) ==
    At(errors \o warnings, code, << <<"shapes">>, S, <<"use">>, W, field >>)

\* C29: when a shape composes W<arg>, the field that W takes over from V<T>
\* keeps the type V declares for it, T included, while W's own field y: T
\* gets the type arg; so for arg a mixin name, the resolver reports E042 for
\* y and not for x: T
C29_OuterArgsOnlyOnOwnFields ==
    \A arg \in {B, V} :
        (pc = "done" /\ ComposedGeneric(arg)) =>
            /\ ResolveMixinFields(W, <<arg>>, {}, mixin_fields).fields
                    = Items(data.mixins)[1][2].fields.v \o << <<y, arg>> >>
            /\ Cardinality(AtContributed("E042", y)) = IF arg = V THEN 1 ELSE 0
            /\ Items(data.mixins)[1][2].fields.v = << <<x, T>> >> =>
                    AtContributed("E042", x) = {}

\* a finished run on V<T> declaring x: T, W<T> composing V<T>, and a shape
\* composing W<V>
C29_Witness ==
    /\ pc = "done"
    /\ ComposedGeneric(V)
    /\ Items(data.mixins)[1][2].fields.v = << <<x, T>> >>
    /\ AtContributed("E042", y) /= {}

\* ------------------------------------------------------------------------
\* Field lists
\* ------------------------------------------------------------------------

\* _lex returned: the token list ends with the end-of-input token
Lexed == Len(tokens) > 0 /\ tokens[Len(tokens)].type = "EOF"

\* the position after the type expression that starts at token q, by the
\* grammar of type expressions; 0 when no type expression starts there
RECURSIVE TypeEnd(_), TypeArgsEnd(_)
TypeArgsEnd(q) ==
    LET Then(e) ==
            IF e = 0 THEN 0
            ELSE IF Peek(e).type = "COMMA" THEN TypeArgsEnd(e + 1)
            ELSE e
    IN Then(TypeEnd(q))

TypeEnd(q) ==
    LET Opt(e) == IF Peek(e).type = "QUESTION" THEN e + 1 ELSE e
        Closed(e, close) == IF e = 0 \/ Peek(e).type /= close THEN 0 ELSE Opt(e + 1)
        Value(k) ==
            IF k = 0 \/ Peek(k).type /= "COMMA" THEN 0
            ELSE Closed(TypeEnd(k + 1), "RBRACE")
    IN CASE Peek(q).type = "LBRACKET" -> Closed(TypeArgsEnd(q + 1), "RBRACKET")
         [] Peek(q).type = "LBRACE" -> Value(TypeEnd(q + 1))
         [] Peek(q).type = "IDENT" ->
                IF Peek(q + 1).type = "LANGLE" THEN Closed(TypeArgsEnd(q + 2), "RANGLE")
                ELSE Opt(q + 1)
         [] OTHER -> 0

\* a field starts at token q: an identifier followed by ":"
StartsField(q) == Peek(q).type = "IDENT" /\ Peek(q + 1).type = "COLON"

\* the first token at or after q that does not start a complete field, 0
\* when a field that starts there has no type expression
RECURSIVE FieldsEnd(_)
FieldsEnd(q) ==
    LET Then(e) == IF e = 0 THEN 0 ELSE FieldsEnd(e)
    IN IF StartsField(q) THEN Then(TypeEnd(q + 2)) ELSE q

\* C21: field-list parsing started at any token of a lexed source consumes
\* only complete "IDENT : type" fields: it returns on the first token that
\* does not start such a field, never before its starting position, and an
\* identifier without ":" is left unconsumed; it raises only when a field
\* has no type expression
C21_FieldsStopAtFirstNonField ==
    LET Holds(p, r) ==
            /\ r.ok => /\ r.pos = FieldsEnd(p)
                       /\ r.pos >= p
                       /\ ~StartsField(r.pos)
                       /\ Len(r.val) <= (r.pos - p) \div 3
            /\ ~r.ok => FieldsEnd(p) = 0
    IN (pc \in {"parse", "parsed", "raised"} /\ Lexed) =>
           \A p \in 1..Len(tokens) : Holds(p, ParseFields(p, <<>>))

\* parse() raised on an identifier that follows a complete field: the
\* identifier was advanced over and put back
C21_Witness ==
    LET PutBack(p, r) ==
            r.ok /\ r.pos > p /\ Peek(r.pos).type = "IDENT" /\ err.at = r.pos
    IN /\ pc = "raised"
       /\ exc = "ParseError"
       /\ \E p \in 1..Len(tokens) : PutBack(p, ParseFields(p, <<>>))

\* ------------------------------------------------------------------------
\* The parser's position
\* ------------------------------------------------------------------------

\* C30: the parser's position stays on a token of the list (1..len(tokens)
\* counting from 1): no token is read past the end of the list, a parse that
\* returns the IR stands on the end-of-input token, which is the last token,
\* and every other parse ends in ParseError at a token of the list
C30_PositionInsideTokens ==
    /\ exc /= "IndexError"
    /\ Lexed => pos \in 1..Len(tokens)
    /\ pc = "parsed" => pos = Len(tokens) /\ tokens[pos].type = "EOF"
    /\ (pc = "raised" /\ exc /= "LexError") =>
            /\ exc = "ParseError"
            /\ err.at = pos
            /\ err.line = tokens[pos].line /\ err.col = tokens[pos].col

\* a form that its closing parenthesis never ends: parse() raised on the
\* end-of-input token itself
C30_Witness ==
    /\ pc = "raised"
    /\ exc = "ParseError"
    /\ pos = Len(tokens)
    /\ tokens[pos].type = "EOF"
    /\ Len(tokens) >= 4

\* ------------------------------------------------------------------------
\* Token positions
\* ------------------------------------------------------------------------

\* C26: every token the lexer appends, the end-of-input token included,
\* records the line and the column of its first character, where a newline
\* starts a new line at column 1 and any other character advances the column
\* by one
C26_TokenAtItsFirstCharacter ==
    [][(pc = "lex" /\ Len(tokens') = Len(tokens) + 1) =>
           /\ tokens'[Len(tokens')].line = TrueLine(index)
           /\ tokens'[Len(tokens')].col = TrueCol(index)]_vars

\* ------------------------------------------------------------------------
\* Mixin references: from the parser to the validator
\* ------------------------------------------------------------------------

\* the name and the argument list the parser has parsed when
\* _parse_mixin_ref, started at token q, returns its reference string
ParsedRef(q) ==
    [name |-> tokens[q].value,
     args |-> IF Peek(q + 1).type = "LANGLE" THEN ParseTypeArgs(q + 2, <<>>).val
              ELSE <<>>]

\* C28: for every reference string the parser emits from a token of a lexed
\* source, the validator's _parse_mixin_ref returns the name and the
\* argument list the parser parsed
C28_ValidatorReadsParserRefs ==
    LET Agree(q, r) == r.ok => ParseMixinRef(r.val) = ParsedRef(q)
    IN (pc \in {"parse", "parsed"} /\ Lexed) =>
           \A q \in 1..Len(tokens) : Agree(q, ParserMixinRef(q))

\* ------------------------------------------------------------------------
\* Argument splitting
\* ------------------------------------------------------------------------

\* the nesting depth of the character at k: the opening delimiters before
\* it that are not yet closed
DepthAt(k) ==
    Cardinality({j \in 1..(k - 1) : args_str[j] \in {"[", "{", "<"}})
        - Cardinality({j \in 1..(k - 1) : args_str[j] \in {"]", "}", ">"}})

\* the commas at nesting depth zero, with the two ends of the text
TopLevelCuts ==
    {0, Len(args_str) + 1}
        \cup {k \in 1..Len(args_str) : args_str[k] = "," /\ DepthAt(k) = 0}

\* the n-th cut from the left
Cut(n) == CHOOSE k \in TopLevelCuts : Cardinality({j \in TopLevelCuts : j < k}) = n - 1

\* C24: the arguments returned for a balanced argument list are the texts
\* between the commas at nesting depth zero (without the blanks around
\* them), one per top-level argument and in their order
C24_SplitAtTopLevelCommas ==
    pc = "returned" =>
        /\ Len(split_args) = Cardinality(TopLevelCuts) - 1
        /\ \A n \in 1..Len(split_args) :
                split_args[n] = Strip(SubSeq(args_str, Cut(n) + 1, Cut(n + 1) - 1))
        /\ \A n \in 1..Len(split_args) :
                /\ split_args[n] /= <<>>
                /\ DepthAt(Cut(n + 1)) = 0

\* "{string, json}, int" was split into "{string, json}" and "int"
C24_Witness ==
    LET assoc == <<"{", "s", "t", "r", "i", "n", "g", ",", " ", "j", "s", "o", "n", "}">>
    IN /\ pc = "returned"
       /\ args_str = assoc \o <<",", " ", "i", "n", "t">>
       /\ split_args = <<assoc, <<"i", "n", "t">> >>

====
